---- MODULE Spec2Model ----
(***************************************************************************)
(* mgotools: the `query` command (aggregation of query patterns per        *)
(* namespace/operation/pattern with count, min, max, sum and 95th          *)
(* percentile) and the base-line tokenizer of the log source.              *)
(*                                                                         *)
(* Strings are sequences of one-character strings, so that concatenation,  *)
(* lower-casing and comparison are computed rune by rune.                  *)
(* Integers of the model are TLC's; int64 values stay far below any        *)
(* overflow with the durations fed here.                                   *)
(***************************************************************************)
EXTENDS Integers, Sequences, FiniteSets, TLC

VARIABLES Log, pc, seen, input, summaryTable, wrap, rawLine, base, baseErr,
          checked, parser, decode, entries, json, file, call

vars == <<Log, pc, seen, input, summaryTable, wrap, rawLine, base, baseErr,
          checked, parser, decode, entries, json, file, call>>

queryVars == <<Log, pc, seen, input, summaryTable, wrap>>
baseVars == <<rawLine, base, baseErr>>
parserVars == <<checked, parser, decode, entries>>
jsonVars == <<json>>
logVars == <<file, call>>
restVars == <<parserVars, jsonVars, logVars>>

(***************************************************************************)
(* Bounds                                                                  *)
(***************************************************************************)
\* lines a file delivers to Run in Spec
MaxLines == 3
\* length of the longest file of SpecFile
MaxLong == 21
\* words after the date in the lines fed to NewBase
MaxRest == 3
\* items for the counter loop in the lines fed to the parsers
MaxLoop == 2
\* lines one parser instance decodes in SpecReuse
MaxEntries == 3
\* the highest index of the files processed side by side in SpecFiles
MaxFile == 1
\* length of the longest list of $in, $nin and $all in the filters of SpecShape
MaxList == 2

(***************************************************************************)
(* Runes and strings                                                       *)
(***************************************************************************)
Upper == <<"A","B","C","D","E","F","G","H","I","J","K","L","M",
           "N","O","P","Q","R","S","T","U","V","W","X","Y","Z">>
Lower == <<"a","b","c","d","e","f","g","h","i","j","k","l","m",
           "n","o","p","q","r","s","t","u","v","w","x","y","z">>
\* the runes used, in code point order
Ascii == <<" ", "$", ",", ".", ":">> \o Upper \o <<"[", "]", "_">> \o Lower \o <<"{", "}">>

Ord(c) == CHOOSE i \in 1..Len(Ascii) : Ascii[i] = c

ToLowerRune(c) == IF \E i \in 1..Len(Upper) : Upper[i] = c
                  THEN Lower[CHOOSE i \in 1..Len(Upper) : Upper[i] = c]
                  ELSE c

StringToLower(s) == [i \in 1..Len(s) |-> ToLowerRune(s[i])]

\* Go's < on strings: bytewise lexicographic
RECURSIVE StrLess(_, _)
StrLess(a, b) ==
    IF b = <<>> THEN FALSE
    ELSE IF a = <<>> THEN TRUE
    ELSE IF a[1] # b[1] THEN Ord(a[1]) < Ord(b[1])
    ELSE StrLess(Tail(a), Tail(b))

\* F applied to the value of x: x is evaluated once, whatever F does with it
With(x, F(_)) == CHOOSE y \in { F(v) : v \in {x} } : TRUE

\* the sequences over S of length up to n
RECURSIVE SeqsUpTo(_, _)
SeqsUpTo(S, n) ==
    IF n = 0 THEN {<<>>}
    ELSE LET shorter == SeqsUpTo(S, n - 1)
         IN  shorter \cup { Append(q, x) : q \in shorter, x \in S }

(***************************************************************************)
(* Patterns of filters (mongo.NewPattern, Pattern.StringCompact).  An      *)
(* object is the sequence of its members <<key, value>>; a value is tagged *)
(* by its first element: <<"O", members>> an object, <<"A", elements>> an  *)
(* array, <<"V">> the sentinel, and any other tag a scalar leaf.           *)
(***************************************************************************)
V == <<"V">>

\* an integer leaf, a string leaf and an ObjectId leaf
Number(n) == <<"L", n>>
Str(runes) == <<"S", runes>>
ObjectId == <<"I", <<>>>>

IsObject(v) == v[1] = "O"
IsArray(v) == v[1] = "A"

LogicalOperators == {<<"$", "a", "n", "d">>, <<"$", "o", "r">>, <<"$", "n", "o", "r">>}
ListOperators == {<<"$", "i", "n">>, <<"$", "n", "i", "n">>, <<"$", "a", "l", "l">>}
GeoOperators == {<<"$", "g", "e", "o", "W", "i", "t", "h", "i", "n">>, <<"$", "g", "e", "o", "I", "n", "t", "e", "r", "s", "e", "c", "t", "s">>, <<"$", "n", "e", "a", "r">>, <<"$", "n", "e", "a", "r", "S", "p", "h", "e", "r", "e">>}

\* an object whose keys all start with `$`
IsEnvelope(v) ==
    /\ IsObject(v) /\ v[2] # <<>>
    /\ \A k \in 1..Len(v[2]) : v[2][k][1] # <<>> /\ v[2][k][1][1] = "$"

ArrayOfObjects(v) ==
    /\ IsArray(v) /\ v[2] # <<>>
    /\ \A k \in 1..Len(v[2]) : IsObject(v[2][k])

\* the value of a geo operator: the keys are kept, an array becomes as many
\* V's as it has elements, the leaves of an object become V
geoShape(w) ==
    IF ~IsObject(w) THEN V
    ELSE <<"O", [k \in 1..Len(w[2]) |->
                    With(w[2][k], LAMBDA m :
                        <<m[1], IF IsArray(m[2]) THEN <<"A", [j \in 1..Len(m[2][2]) |-> V]>>
                                ELSE IF IsObject(m[2])
                                THEN <<"O", [j \in 1..Len(m[2][2]) |-> <<m[2][2][j][1], V>>]>>
                                ELSE V>>)]>>

RECURSIVE NewPattern(_)

\* envelopeValue with the lists of $in, $nin and $all kept element by element
envelopeValueKeepLists(op, w) ==
    IF op \in ListOperators
    THEN (IF IsArray(w) THEN <<"A", [j \in 1..Len(w[2]) |-> V]>> ELSE V)
    ELSE IF op = <<"$", "e", "l", "e", "m", "M", "a", "t", "c", "h">>
    THEN (IF IsObject(w) THEN <<"O", NewPattern(w[2])>> ELSE V)
    ELSE IF op \in GeoOperators THEN geoShape(w)
    ELSE V

\* the value of one operator of a constraint envelope
envelopeValue(op, w) ==
    IF op \in ListOperators THEN V
    ELSE IF op = <<"$", "e", "l", "e", "m", "M", "a", "t", "c", "h">>
    THEN (IF IsObject(w) THEN <<"O", NewPattern(w[2])>> ELSE V)
    ELSE IF op \in GeoOperators THEN geoShape(w)
    ELSE V

\* an array with objects in it: each object is canonicalized, an array of
\* objects within it too, any other element becomes V
RECURSIVE createArray(_)
createArray(elems) ==
    [k \in 1..Len(elems) |->
        IF IsObject(elems[k]) THEN <<"O", NewPattern(elems[k][2])>>
        ELSE IF ArrayOfObjects(elems[k]) THEN <<"A", createArray(elems[k][2])>>
        ELSE V]

\* the value of one field of a filter
fieldValue(key, v) ==
    IF key \in LogicalOperators /\ IsArray(v) THEN <<"A", createArray(v[2])>>
    ELSE IF IsEnvelope(v)
    THEN <<"O", [k \in 1..Len(v[2]) |-> <<v[2][k][1], envelopeValue(v[2][k][1], v[2][k][2])>>]>>
    ELSE IF ArrayOfObjects(v) THEN <<"A", createArray(v[2])>>
    ELSE V

NewPattern(filter) ==
    [i \in 1..Len(filter) |-> <<filter[i][1], fieldValue(filter[i][1], filter[i][2])>>]

RECURSIVE InsertMember(_, _)
InsertMember(m, sorted) ==
    IF sorted = <<>> THEN <<m>>
    ELSE IF StrLess(m[1], sorted[1][1]) THEN <<m>> \o sorted
    ELSE <<sorted[1]>> \o InsertMember(m, Tail(sorted))

RECURSIVE SortMembers(_)
SortMembers(obj) ==
    IF obj = <<>> THEN <<>> ELSE InsertMember(obj[1], SortMembers(Tail(obj)))

RECURSIVE JoinMembers(_)
RECURSIVE JoinElements(_)

\* the text of a value of a pattern
compactValue(v) ==
    IF IsObject(v) THEN <<"{">> \o JoinMembers(SortMembers(v[2])) \o <<"}">>
    ELSE IF IsArray(v) THEN <<"[">> \o JoinElements(v[2]) \o <<"]">>
    ELSE <<"V">>

JoinElements(es) ==
    IF es = <<>> THEN <<>>
    ELSE compactValue(es[1]) \o (IF Len(es) > 1 THEN <<",">> ELSE <<>>) \o JoinElements(Tail(es))

JoinMembers(ms) ==
    IF ms = <<>> THEN <<>>
    ELSE ms[1][1] \o <<":">> \o compactValue(ms[1][2])
         \o (IF Len(ms) > 1 THEN <<",">> ELSE <<>>) \o JoinMembers(Tail(ms))

StringCompact(pattern) == <<"{">> \o JoinMembers(SortMembers(pattern)) \o <<"}">>

(***************************************************************************)
(* The query command: constants and records                                *)
(***************************************************************************)
sortNamespace == 0
sortOperation == 1
sortPattern == 2
sortCount == 3
sortMin == 4
sortMax == 5
sortN95 == 6
sortSum == 7

\* const N95MaxSamples = 16 * 1024 * 1024, scaled down to the size of the model's files
N95MaxSamples == 2

\* math.MaxInt64, as the largest value of the model's integers
MaxInt64 == 2147483647

\* a float64 of the table: NaN, or the number twice/2 (durations are whole, so
\* every p95 is a multiple of one half)
Float(twice) == [nan |-> FALSE, twice |-> twice]
NaN == [nan |-> TRUE, twice |-> 0]

\* the instances (files) of the command line
Instances == {0}

\* formatting.Pattern as Run creates it, and the queryPattern around it
NewQueryPattern(ns, op, query) ==
    [Pattern |-> [Namespace |-> ns, Operation |-> op, Pattern |-> query,
                  Count |-> 0, Min |-> MaxInt64, Max |-> 0, Sum |-> 0,
                  N95Percentile |-> Float(0)],
     cursorId |-> 0,
     p95 |-> <<>>]

\* the log lines: what the version context decodes from one base line
Line(kind, variant, ns, op, dur, filter) ==
    [kind |-> kind, variant |-> variant, ns |-> ns, op |-> op, dur |-> dur, filter |-> filter]

CrudVariants == {"Command", "CommandLegacy", "Operation", "OperationLegacy"}

(***************************************************************************)
(* query.update                                                            *)
(***************************************************************************)
\* the minimum compared with the maximum
updateMinAgainstMax(s, dur) ==
    [s EXCEPT !.Pattern.Count = @ + 1,
              !.Pattern.Sum = @ + dur,
              !.p95 = Append(@, dur),
              !.Pattern.Max = IF dur > @ THEN dur ELSE @,
              !.Pattern.Min = IF dur < s.Pattern.Max THEN dur ELSE @]

\* the maximum compared with the minimum
updateMaxAgainstMin(s, dur) ==
    [s EXCEPT !.Pattern.Count = @ + 1,
              !.Pattern.Sum = @ + dur,
              !.p95 = Append(@, dur),
              !.Pattern.Max = IF dur > s.Pattern.Min THEN dur ELSE @,
              !.Pattern.Min = IF dur < @ THEN dur ELSE @]

update(s, dur) ==
    [s EXCEPT !.Pattern.Count = @ + 1,
              !.Pattern.Sum = @ + dur,
              !.p95 = Append(@, dur),
              !.Pattern.Max = IF dur > @ THEN dur ELSE @,
              !.Pattern.Min = IF dur < @ THEN dur ELSE @]

(***************************************************************************)
(* query.standardize                                                       *)
(***************************************************************************)
standardize(crud) ==
    IF crud.variant \in CrudVariants
    THEN [ns |-> crud.ns, op |-> crud.op, dur |-> crud.dur, ok |-> TRUE]
    ELSE [ns |-> <<>>, op |-> <<>>, dur |-> 0, ok |-> FALSE]

(***************************************************************************)
(* query.Run: the switch on the lower-cased operation, and the body of the *)
(* loop over the lines of the file                                         *)
(***************************************************************************)
KeptOperations ==
    { <<"f","i","n","d">>, <<"c","o","u","n","t">>, <<"u","p","d","a","t","e">>,
      <<"g","e","t","m","o","r","e">>, <<"r","e","m","o","v","e">>,
      <<"f","i","n","d","a","n","d","m","o","d","i","f","y">>,
      <<"g","e","o","n","e","a","r">> }

\* the switch without its default branch
OperationKeptAll(op) == TRUE

OperationKept(op) == op \in KeptOperations

PatternKey(ns, op, query) == ns \o <<":">> \o op \o <<":">> \o query

Aggregate(log, ns, op, query, dur) ==
    IF op # <<>> /\ query # <<>>
    THEN LET key == PatternKey(ns, op, query)
             pattern == IF key \in DOMAIN log.Patterns
                        THEN log.Patterns[key]
                        ELSE NewQueryPattern(ns, op, query)
         IN [log EXCEPT !.Patterns = (key :> update(pattern, dur)) @@ @]
    ELSE log

\* a message that is no CRUD counted as an error
RunLineCountsNonCrud(log0, line) ==
    LET log == [log0 EXCEPT !.LineCount = @ + 1]
    IN  IF line.kind = "empty" THEN [log EXCEPT !.ErrorCount = @ + 1]
        ELSE IF line.kind = "bad" THEN [log EXCEPT !.ErrorCount = @ + 1]
        ELSE IF line.kind # "crud" THEN [log EXCEPT !.ErrorCount = @ + 1]
        ELSE LET query == StringCompact(NewPattern(line.filter))
                 std == standardize(line)
                 op == StringToLower(std.op)
             IN  IF ~std.ok THEN [log EXCEPT !.ErrorCount = @ + 1]
                 ELSE IF ~OperationKept(op) THEN log
                 ELSE Aggregate(log, std.ns, op, query, std.dur)

RunLine(log0, line) ==
    LET log == [log0 EXCEPT !.LineCount = @ + 1]
    IN  IF line.kind = "empty" THEN [log EXCEPT !.ErrorCount = @ + 1]
        ELSE IF line.kind = "bad" THEN [log EXCEPT !.ErrorCount = @ + 1]
        ELSE IF line.kind # "crud" THEN log
        ELSE LET query == StringCompact(NewPattern(line.filter))
                 std == standardize(line)
                 op == StringToLower(std.op)
             IN  IF ~std.ok THEN [log EXCEPT !.ErrorCount = @ + 1]
                 ELSE IF ~OperationKept(op) THEN log
                 ELSE Aggregate(log, std.ns, op, query, std.dur)

RECURSIVE RunLines(_, _)
RunLines(log, lines) ==
    IF lines = <<>> THEN log ELSE RunLines(RunLine(log, lines[1]), Tail(lines))

(***************************************************************************)
(* query.values: the samples sorted ascending and the 95th percentile.     *)
(* index = float64(len) * 0.95 is the rational 19*len/20: it is whole iff  *)
(* 20 divides 19*len, and int(index) is the quotient.                      *)
(***************************************************************************)
RECURSIVE InsertSample(_, _)
InsertSample(d, sorted) ==
    IF sorted = <<>> THEN <<d>>
    ELSE IF d <= sorted[1] THEN <<d>> \o sorted
    ELSE <<sorted[1]>> \o InsertSample(d, Tail(sorted))

RECURSIVE SortSamples(_)
SortSamples(p95) ==
    IF p95 = <<>> THEN <<>> ELSE InsertSample(p95[1], SortSamples(Tail(p95)))

\* the whole-number case read one sample too low
N95OfOneBelow(p95, old) ==
    LET n == Len(p95)
        index == (19 * n) \div 20
    IN  IF n > 1
        THEN IF (19 * n) % 20 = 0 THEN Float(2 * p95[index])
             ELSE IF 19 * n > 20 THEN Float(p95[index] + p95[index + 1])
             ELSE NaN
        ELSE old

\* p95 is the sorted vector (Go indexes from 0, sequences from 1)
N95Of(p95, old) ==
    LET n == Len(p95)
        index == (19 * n) \div 20
    IN  IF n > 1
        THEN IF (19 * n) % 20 = 0 THEN Float(2 * p95[index + 1])
             ELSE IF 19 * n > 20 THEN Float(p95[index] + p95[index + 1])
             ELSE NaN
        ELSE old

\* the percentile taken from the samples as they arrived
valuesOfUnsorted(pattern) ==
    [pattern EXCEPT !.Pattern.N95Percentile = N95Of(pattern.p95, @)]

valuesOf(pattern) ==
    LET sorted == SortSamples(pattern.p95)
    IN  [pattern EXCEPT !.p95 = sorted,
                        !.Pattern.N95Percentile = N95Of(sorted, @)]

\* the loop variable is a copy of the map's entry: the percentile is set on the
\* copy only, the samples are sorted in the array the entry shares with it
\* the rows in the order the iteration over the map delivers the keys
values(patterns, keys) == [i \in 1..Len(keys) |-> valuesOf(patterns[keys[i]]).Pattern]

\* the orders in which a map with these keys may be iterated
KeyOrders(keys) ==
    { o \in [1..Cardinality(keys) -> keys] : \A i, j \in DOMAIN o : i # j => o[i] # o[j] }

(***************************************************************************)
(* query.sort: the comparator over the chain of fields, and the sort by it *)
(***************************************************************************)
FloatEq(a, b) == ~a.nan /\ ~b.nan /\ a.twice = b.twice
FloatGe(a, b) == ~a.nan /\ ~b.nan /\ a.twice >= b.twice

RECURSIVE Less(_, _, _)
Less(vi, vj, order) ==
    IF order = <<>> THEN TRUE
    ELSE LET field == order[1]
             rest == Tail(order)
         IN  CASE field = sortNamespace ->
                    IF vi.Namespace = vj.Namespace THEN Less(vi, vj, rest)
                    ELSE StrLess(vi.Namespace, vj.Namespace)
               [] field = sortOperation ->
                    IF vi.Operation = vj.Operation THEN Less(vi, vj, rest)
                    ELSE StrLess(vi.Operation, vj.Operation)
               [] field = sortPattern ->
                    IF vi.Pattern = vj.Pattern THEN Less(vi, vj, rest)
                    ELSE StrLess(vi.Pattern, vj.Pattern)
               [] field = sortSum ->
                    IF vi.Sum = vj.Sum THEN Less(vi, vj, rest) ELSE vi.Sum >= vj.Sum
               [] field = sortN95 ->
                    IF FloatEq(vi.N95Percentile, vj.N95Percentile) THEN Less(vi, vj, rest)
                    ELSE FloatGe(vi.N95Percentile, vj.N95Percentile)
               [] field = sortMax ->
                    IF vi.Max = vj.Max THEN Less(vi, vj, rest) ELSE vi.Max >= vj.Max
               [] field = sortMin ->
                    IF vi.Min = vj.Min THEN Less(vi, vj, rest) ELSE vi.Min >= vj.Min
               [] field = sortCount ->
                    IF vi.Count = vj.Count THEN Less(vi, vj, rest) ELSE vi.Count >= vj.Count
               [] OTHER -> Less(vi, vj, rest)

RECURSIVE InsertRow(_, _, _)
InsertRow(v, sorted, order) ==
    IF sorted = <<>> THEN <<v>>
    ELSE IF Less(v, sorted[1], order) THEN <<v>> \o sorted
    ELSE <<sorted[1]>> \o InsertRow(v, Tail(sorted), order)

RECURSIVE sort(_, _)
sort(vals, order) ==
    IF vals = <<>> THEN <<>> ELSE InsertRow(vals[1], sort(Tail(vals), order), order)

(***************************************************************************)
(* query.Prepare                                                           *)
(***************************************************************************)
sortOptions ==
    [opt \in {"namespace", "operation", "pattern", "count", "min", "max", "95%", "sum"} |->
        CASE opt = "namespace" -> sortNamespace
          [] opt = "operation" -> sortOperation
          [] opt = "pattern" -> sortPattern
          [] opt = "count" -> sortCount
          [] opt = "min" -> sortMin
          [] opt = "max" -> sortMax
          [] opt = "95%" -> sortN95
          [] opt = "sum" -> sortSum]

DefaultSort == <<sortSum, sortNamespace, sortOperation, sortPattern>>

\* the loop over the options: the chain so far, and whether an option was unknown
RECURSIVE AppendOptions(_, _)
AppendOptions(chain, opts) ==
    IF opts = <<>> THEN [sort |-> chain, ok |-> TRUE]
    ELSE IF opts[1] \notin DOMAIN sortOptions THEN [sort |-> chain, ok |-> FALSE]
    ELSE AppendOptions(Append(chain, sortOptions[opts[1]]), Tail(opts))

NewQueryInstance(chain) ==
    [sort |-> chain, ErrorCount |-> 0, LineCount |-> 0, Patterns |-> <<>>]

\* the values of --sort, split at the commas
SortArgs == { <<>>, <<"count">>, <<"count", "bogus">> }

Prepare(i, opts, wrapArg) ==
    /\ pc[i] = "new"
    /\ LET res == AppendOptions(DefaultSort, opts)
       IN  /\ Log' = (i :> NewQueryInstance(res.sort)) @@ Log
           /\ pc' = [pc EXCEPT ![i] = IF res.ok THEN "prepared" ELSE "failed"]
    /\ wrap' = wrapArg
    /\ seen' = [seen EXCEPT ![i] = <<>>]
    /\ UNCHANGED <<input, summaryTable, baseVars, restVars>>

(***************************************************************************)
(* query.Run, line by line (Spec) and over a whole file (SpecFile)         *)
(***************************************************************************)
Run(i, line) ==
    /\ pc[i] \in {"prepared", "running"}
    /\ Log[i].LineCount < MaxLines
    /\ Log' = [Log EXCEPT ![i] = RunLine(@, line)]
    /\ seen' = [seen EXCEPT ![i] = Append(@, line)]
    /\ pc' = [pc EXCEPT ![i] = "running"]
    /\ UNCHANGED <<input, summaryTable, wrap, baseVars, restVars>>

\* the channel is closed: Run returns
RunReturn(i) ==
    /\ pc[i] \in {"prepared", "running"}
    /\ pc' = [pc EXCEPT ![i] = "ran"]
    /\ UNCHANGED <<Log, seen, input, summaryTable, wrap, baseVars, restVars>>

RunFile(i) ==
    /\ pc[i] = "prepared"
    /\ Log' = [Log EXCEPT ![i] = RunLines(@, input[i])]
    /\ seen' = [seen EXCEPT ![i] = input[i]]
    /\ input' = [input EXCEPT ![i] = <<>>]
    /\ pc' = [pc EXCEPT ![i] = "ran"]
    /\ UNCHANGED <<summaryTable, wrap, baseVars, restVars>>

(***************************************************************************)
(* query.Finish: the samples of every bucket are sorted in place, the rows *)
(* are sorted by the chain and printed to the summary table                *)
(***************************************************************************)
Separator == [sep |-> TRUE, index |-> 0, rows |-> <<>>]
Printed(i, rows) == [sep |-> FALSE, index |-> i, rows |-> rows]

Finish(i) ==
    /\ pc[i] = "ran"
    /\ \E keys \in KeyOrders(DOMAIN Log[i].Patterns) :
          LET log == Log[i]
              rows == sort(values(log.Patterns, keys), log.sort)
          IN  /\ summaryTable' = (IF i > 0 THEN Append(summaryTable, Separator)
                                  ELSE summaryTable) \o <<Printed(i, rows)>>
              /\ Log' = [Log EXCEPT ![i].Patterns =
                            [k \in DOMAIN log.Patterns |->
                                [log.Patterns[k] EXCEPT !.p95 = SortSamples(@)]]]
    /\ pc' = [pc EXCEPT ![i] = "finished"]
    /\ UNCHANGED <<seen, input, wrap, baseVars, restVars>>

(***************************************************************************)
(* The lines of the files                                                  *)
(***************************************************************************)
NsA == <<"d", ".", "a">>
NsB == <<"d", ".", "b">>
OpFind == <<"f", "i", "n", "d">>
OpFindMixed == <<"F", "i", "n", "d">>
OpUpdate == <<"u", "p", "d", "a", "t", "e">>
OpInsert == <<"i", "n", "s", "e", "r", "t">>
KeyA == <<"a">>
KeyB == <<"b">>

Lines ==
    { Line("empty", "None", <<>>, <<>>, 0, <<>>),
      Line("bad", "None", <<>>, <<>>, 0, <<>>),
      Line("msg", "Control", <<>>, <<>>, 0, <<>>),
      Line("crud", "Other", NsA, OpFind, 10, << <<KeyA, Number(1)>> >>),
      Line("crud", "Command", NsA, OpFind, 10, << <<KeyA, Number(1)>> >>),
      Line("crud", "Command", NsA, OpFindMixed, 20, << <<KeyA, Number(2)>> >>),
      Line("crud", "Operation", NsA, OpFind, 30, << <<KeyA, Number(1)>> >>),
      Line("crud", "Command", NsA, OpInsert, 10, << <<KeyA, Number(1)>> >>),
      Line("crud", "CommandLegacy", NsB, OpUpdate, 20, << <<KeyB, Number(1)>>, <<KeyA, Number(1)>> >>),
      Line("crud", "OperationLegacy", NsB, OpUpdate, 10, << <<KeyA, Number(1)>>, <<KeyB, Number(2)>> >>) }

\* the long files: n lines of one bucket (and a second bucket in the last shape),
\* with durations that rise, fall, alternate, jump or repeat
LongShapes == {"rise", "fall", "alternate", "jump", "flat", "two"}

LongDur(shape, k, n) ==
    CASE shape = "rise" -> 10 * k
      [] shape = "fall" -> 10 * (n - k + 1)
      [] shape = "alternate" -> IF k % 2 = 0 THEN 10 ELSE 30
      [] shape = "jump" -> 10 * ((k * 7) % n)
      [] shape = "flat" -> 20
      [] shape = "two" -> 10 * ((k * 3) % 5)

LongLine(shape, k, n) ==
    IF shape = "two" /\ k % 4 = 0
    THEN Line("crud", "CommandLegacy", NsB, OpUpdate, LongDur(shape, k, n), << <<KeyB, Number(k)>> >>)
    ELSE Line("crud", "Command", NsA, OpFind, LongDur(shape, k, n), << <<KeyA, Number(k)>> >>)

LongInputs ==
    { [k \in 1..n |-> LongLine(shape, k, n)] : n \in 2..MaxLong, shape \in LongShapes }

(***************************************************************************)
(* The rune reader of a base line (internal.RuneReader).  `next` counts    *)
(* the runes consumed, `word` is where the last slurped word began.        *)
(* As the parsers use it: the Expect functions look without advancing      *)
(* (ExpectString("planSummary:") is followed by Skip(12)), SlurpWord       *)
(* leaves the cursor on the rune that follows the word and its blanks      *)
(* (ExpectRune tests that rune next) and RewindSlurpWord returns to the    *)
(* first rune of the word (Skip(6) then passes `locks:`).                  *)
(***************************************************************************)
NewRuneReader(line) == [runes |-> line, next |-> 0, word |-> 0]

IsSpace(c) == c = " "

EOL(r) == r.next >= Len(r.runes)

RECURSIVE SkipSpaces(_, _)
SkipSpaces(runes, at) ==
    IF at < Len(runes) /\ IsSpace(runes[at + 1]) THEN SkipSpaces(runes, at + 1) ELSE at

RECURSIVE WordEnd(_, _)
WordEnd(runes, at) ==
    IF at < Len(runes) /\ ~IsSpace(runes[at + 1]) THEN WordEnd(runes, at + 1) ELSE at

\* the word, whether there was one, and the reader after it
SlurpWord(r0) ==
    With(r0, LAMBDA r :
    With(SkipSpaces(r.runes, r.next), LAMBDA from :
    With(WordEnd(r.runes, from), LAMBDA to :
        IF from >= Len(r.runes)
        THEN [word |-> <<>>, ok |-> FALSE, r |-> [r EXCEPT !.next = from]]
        ELSE [word |-> SubSeq(r.runes, from + 1, to), ok |-> TRUE,
              r |-> [r EXCEPT !.next = SkipSpaces(r.runes, to), !.word = from]])))

RewindSlurpWord(r) == [r EXCEPT !.next = r.word]

PreviewWord(r) == SlurpWord(r).word

ExpectRune(r, c) == r.next < Len(r.runes) /\ r.runes[r.next + 1] = c

Remainder(r) == SubSeq(r.runes, r.next + 1, Len(r.runes))

\* the reader stands on the opening rune: the runes between it and the next
\* closing rune, and the reader after the closing rune
EnclosedString(r0, close) ==
    With(r0, LAMBDA r :
    With({ k \in (r.next + 2)..Len(r.runes) : r.runes[k] = close }, LAMBDA closes :
        IF closes = {} THEN [str |-> <<>>, ok |-> FALSE, r |-> r]
        ELSE With(CHOOSE k \in closes : \A j \in closes : k <= j, LAMBDA at :
                [str |-> SubSeq(r.runes, r.next + 2, at - 1), ok |-> TRUE,
                 r |-> [r EXCEPT !.next = at]])))

(***************************************************************************)
(* The word tests of package internal and record                           *)
(***************************************************************************)
Digits == {"0", "1", "2", "3", "4", "5", "6", "7", "8", "9"}

\* a word with every digit replaced by 9
Shape(word) == [k \in 1..Len(word) |-> IF word[k] \in Digits THEN "9" ELSE word[k]]

IsDay(word) == word \in { <<"S", "u", "n">>, <<"M", "o", "n">>, <<"T", "u", "e">>, <<"W", "e", "d">>, <<"T", "h", "u">>, <<"F", "r", "i">>, <<"S", "a", "t">> }

IsMonth(word) ==
    word \in { <<"J", "a", "n">>, <<"F", "e", "b">>, <<"M", "a", "r">>, <<"A", "p", "r">>,
               <<"M", "a", "y">>, <<"J", "u", "n">>, <<"J", "u", "l">>, <<"A", "u", "g">>,
               <<"S", "e", "p">>, <<"O", "c", "t">>, <<"N", "o", "v">>, <<"D", "e", "c">> }

IsNumeric(word) == word # <<>> /\ \A k \in 1..Len(word) : word[k] \in Digits

IsTime(word) == Shape(word) \in { <<"9", "9", ":", "9", "9", ":", "9", "9">>,
                              <<"9", "9", ":", "9", "9", ":", "9", "9", ".", "9", "9", "9">> }

IsIso8601String(word) ==
    Shape(word) \in { <<"9", "9", "9", "9", "-", "9", "9", "-", "9", "9", "T", "9", "9", ":", "9", "9", ":", "9", "9", ".", "9", "9", "9", "Z">>,
                      <<"9", "9", "9", "9", "-", "9", "9", "-", "9", "9", "T", "9", "9", ":", "9", "9", ":", "9", "9", "Z">>,
                      <<"9", "9", "9", "9", "-", "9", "9", "-", "9", "9", "T", "9", "9", ":", "9", "9", ":", "9", "9", ".", "9", "9", "9", "+", "9", "9", "9", "9">>,
                      <<"9", "9", "9", "9", "-", "9", "9", "-", "9", "9", "T", "9", "9", ":", "9", "9", ":", "9", "9", ".", "9", "9", "9", "-", "9", "9", "9", "9">> }

SeverityNone == "None"

\* record.NewSeverity: the severity of a one-letter word
NewSeverity(word) ==
    IF Len(word) = 1 /\ word[1] \in {"F", "E", "W", "I", "D"}
    THEN [severity |-> word[1], ok |-> TRUE]
    ELSE [severity |-> SeverityNone, ok |-> FALSE]

IsComponent(word) ==
    word \in { <<"C", "O", "M", "M", "A", "N", "D">>,
               <<"W", "R", "I", "T", "E">>,
               <<"N", "E", "T", "W", "O", "R", "K">>,
               <<"C", "O", "N", "T", "R", "O", "L">>,
               <<"S", "T", "O", "R", "A", "G", "E">>,
               <<"-">> }

(***************************************************************************)
(* parseCDateString: four words are slurped while there are words; in the  *)
(* switch only the last case has a body                                    *)
(***************************************************************************)
RECURSIVE SlurpTarget(_, _, _)
SlurpTarget(r, target0, i) ==
    With(target0, LAMBDA target :
        IF i >= 4 THEN [r |-> r, target |-> target]
        ELSE With(SlurpWord(r), LAMBDA w :
                IF w.ok THEN SlurpTarget(w.r, [target EXCEPT ![i + 1] = w.word], i + 1)
                ELSE [r |-> w.r, target |-> target]))

Join4(target) == target[1] \o <<" ">> \o target[2] \o <<" ">> \o target[3] \o <<" ">> \o target[4]

parseCDateString(r) ==
    With(r.next, LAMBDA start :
    With(SlurpTarget(r, <<<<>>, <<>>, <<>>, <<>>>>, 0), LAMBDA s :
    With(s.target, LAMBDA target :
        IF ~IsDay(target[1]) THEN [str |-> Join4(target), r |-> s.r]
        ELSE IF ~IsMonth(target[2]) THEN [str |-> Join4(target), r |-> s.r]
        ELSE IF ~IsNumeric(target[3]) THEN [str |-> Join4(target), r |-> s.r]
        ELSE IF ~IsTime(target[4]) THEN [str |-> <<>>, r |-> [s.r EXCEPT !.next = start]]
        ELSE [str |-> Join4(target), r |-> s.r])))

(***************************************************************************)
(* Log.NewBase                                                             *)
(***************************************************************************)
NoBase == [RuneReader |-> NewRuneReader(<<>>), LineNumber |-> 0,
           RawDate |-> <<>>, CString |-> FALSE, Severity |-> SeverityNone,
           RawComponent |-> <<>>, RawContext |-> <<>>, RawMessage |-> <<>>]

\* the date at the start of the line
BaseDate(b) ==
    With(PreviewWord(b.RuneReader), LAMBDA day :
        IF IsDay(day)
        THEN With(parseCDateString(b.RuneReader), LAMBDA d :
                [b EXCEPT !.RawDate = d.str, !.CString = TRUE, !.RuneReader = d.r])
        ELSE IF IsIso8601String(day)
        THEN With(SlurpWord(b.RuneReader), LAMBDA w :
                [b EXCEPT !.RawDate = w.word, !.CString = FALSE, !.RuneReader = w.r])
        ELSE b)

\* the context first: the bracketed string, then the blanks after it
BaseContextFirst(b) ==
    With(EnclosedString(b.RuneReader, "]"), LAMBDA e :
    With(IF e.ok THEN e.r ELSE b.RuneReader, LAMBDA r :
        [b EXCEPT !.RawContext = IF e.ok THEN e.str ELSE @,
                  !.RuneReader = [r EXCEPT !.next = SkipSpaces(r.runes, r.next)]]))

\* up to four words: severity, component, context; the first word that is none
\* of them stays in the message
RECURSIVE BaseParts(_, _)
BaseParts(b0, i) ==
    With(b0, LAMBDA b :
        IF i >= 4 THEN b
        ELSE With(SlurpWord(b.RuneReader), LAMBDA w :
             With([b EXCEPT !.RuneReader = w.r], LAMBDA b1 :
             With(NewSeverity(w.word), LAMBDA sev :
             With([b1 EXCEPT !.RuneReader = RewindSlurpWord(w.r)], LAMBDA rewound :
                IF ~w.ok THEN BaseParts(b1, i + 1)
                ELSE IF /\ b.Severity = SeverityNone /\ b.RawComponent = <<>>
                        /\ b.RawContext = <<>> /\ sev.ok
                THEN BaseParts([b1 EXCEPT !.Severity = sev.severity], i + 1)
                ELSE IF b.RawComponent = <<>> /\ IsComponent(w.word)
                THEN BaseParts([b1 EXCEPT !.RawComponent = w.word], i + 1)
                ELSE IF b.RawContext = <<>> /\ w.word[1] = "["
                THEN With(EnclosedString(rewound.RuneReader, "]"), LAMBDA e :
                        IF e.ok
                        THEN BaseParts([rewound EXCEPT !.RawContext = e.str, !.RuneReader = e.r], i + 1)
                        ELSE rewound)
                ELSE rewound)))))

\* the line ends right after the date, or no date was taken
NewBaseNoEOLCheck(line, num) ==
    With([NoBase EXCEPT !.RuneReader = NewRuneReader(line), !.LineNumber = num], LAMBDA b0 :
    With(BaseDate(b0), LAMBDA b1 :
        IF b1.RawDate = <<>> THEN [base |-> b1, err |-> "ErrorParsingDate"]
        ELSE With(IF ExpectRune(b1.RuneReader, "[") THEN BaseContextFirst(b1)
                  ELSE BaseParts(b1, 0), LAMBDA b2 :
                IF b2.RawContext = <<>> THEN [base |-> b2, err |-> "ErrorMissingContext"]
                ELSE [base |-> [b2 EXCEPT !.RawMessage = Remainder(b2.RuneReader)],
                      err |-> "nil"])))

NewBase(line, num) ==
    With([NoBase EXCEPT !.RuneReader = NewRuneReader(line), !.LineNumber = num], LAMBDA b0 :
    With(BaseDate(b0), LAMBDA b1 :
        IF EOL(b1.RuneReader) \/ b1.RawDate = <<>> THEN [base |-> b1, err |-> "ErrorParsingDate"]
        ELSE With(IF ExpectRune(b1.RuneReader, "[") THEN BaseContextFirst(b1)
                  ELSE BaseParts(b1, 0), LAMBDA b2 :
                IF b2.RawContext = <<>> THEN [base |-> b2, err |-> "ErrorMissingContext"]
                ELSE [base |-> [b2 EXCEPT !.RawMessage = Remainder(b2.RuneReader)],
                      err |-> "nil"])))

\* one call of NewBase on the line at hand
NewBaseCall ==
    /\ baseErr = "pending"
    /\ \E res \in {NewBase(rawLine, 1)} :
           /\ base' = res.base
           /\ baseErr' = res.err
    /\ UNCHANGED <<rawLine, queryVars, restVars>>

(***************************************************************************)
(* The lines fed to NewBase: a start (a date, or what stands in its place) *)
(* followed by up to MaxRest words, each after one blank                   *)
(***************************************************************************)
IsoDate == <<"2", "0", "1", "8", "-", "0", "1", "-", "0", "2", "T", "1", "5", ":", "0", "4", ":", "0", "5", ".", "0", "0", "0", "Z">>
CDate == <<"S", "u", "n", " ", "J", "a", "n", " ", "0", "2", " ", "1", "5", ":", "0", "4", ":", "0", "5">>

LineStarts ==
    { <<>>,
      IsoDate,
      <<" ">> \o IsoDate,
      <<"x">>,
      CDate,
      <<"S", "u", "n", " ", "J", "a", "n", " ", "0", "2", " ", "x">>,
      <<"S", "u", "n", " ", "x", " ", "0", "2", " ", "1", "5", ":", "0", "4", ":", "0", "5">>,
      <<"S", "u", "n", " ", "J", "a", "n", " ", "x", " ", "1", "5", ":", "0", "4", ":", "0", "5">>,
      <<"S", "u", "n", " ", "J", "a", "n", " ", "0", "2">>,
      <<"S", "u", "n">> }

RestWords ==
    { <<>>, <<"I">>, <<"C", "O", "M", "M", "A", "N", "D">>, <<"x">>, <<"[", "x", "]">>, <<"[", "x", " ", "x", "]">>, <<"[", "]">>, <<"[", "x">> }

RECURSIVE JoinWords(_)
JoinWords(ws) == IF ws = <<>> THEN <<>> ELSE <<" ">> \o ws[1] \o JoinWords(Tail(ws))

BaseLines == { start \o JoinWords(ws) : start \in LineStarts, ws \in SeqsUpTo(RestWords, MaxRest) }

(***************************************************************************)
(* The JSON-ish document parser (mongo.ParseJson, mongo.ParseJsonRunes).   *)
(* A position counts the runes consumed.  A value is a tagged tuple:       *)
(* <<"S", runes>> a string, <<"N", runes>> a number, <<"B", runes>> a      *)
(* boolean, <<"Z">> null, <<"R", pattern, flags>> a regex, <<"I", hex>> an *)
(* ObjectId, <<"O", members>> an object and <<"A", elements>> an array.    *)
(* As the tests have it, a bare regex is read in both modes and the strict *)
(* mode takes no rune after the closing brace.                             *)
(***************************************************************************)
Letters == { Upper[i] : i \in 1..Len(Upper) } \cup { Lower[i] : i \in 1..Len(Lower) }
IdentRunes == Letters \cup Digits \cup {"_", "$"}
HexRunes == Digits \cup {"a", "b", "c", "d", "e", "f", "A", "B", "C", "D", "E", "F"}

Peek(s, at) == IF at < Len(s) THEN s[at + 1] ELSE ""

JsonFail == [ok |-> FALSE, at |-> 0, val |-> <<"E">>]
JsonOk(at, val) == [ok |-> TRUE, at |-> at, val |-> val]

\* the index of the first rune q at or after index k that no backslash
\* escapes, 0 when there is none
RECURSIVE ScanTo(_, _, _)
ScanTo(s, k, q) ==
    IF k > Len(s) THEN 0
    ELSE IF s[k] = "\\" THEN ScanTo(s, k + 2, q)
    ELSE IF s[k] = q THEN k
    ELSE ScanTo(s, k + 1, q)

\* the position after the run of runes of cs that starts at position at
RECURSIVE RunEnd(_, _, _)
RunEnd(s, at, cs) == IF at < Len(s) /\ s[at + 1] \in cs THEN RunEnd(s, at + 1, cs) ELSE at

\* the position is on the opening quote q
parseString(s, at, q) ==
    With(ScanTo(s, at + 2, q), LAMBDA k :
        IF k = 0 THEN JsonFail ELSE JsonOk(k, <<"S", SubSeq(s, at + 2, k - 1)>>))

\* the position is on the opening slash
parseRegex(s, at) ==
    With(ScanTo(s, at + 2, "/"), LAMBDA k :
        IF k = 0 THEN JsonFail
        ELSE With(RunEnd(s, k, Letters), LAMBDA e :
                JsonOk(e, <<"R", SubSeq(s, at + 2, k - 1), SubSeq(s, k + 1, e)>>)))

\* the digits of a fraction or of an exponent that may follow position at:
\* the position after them, -1 when the part is begun and has no digit
FractionEnd(s, at) ==
    IF Peek(s, at) # "." THEN at
    ELSE With(RunEnd(s, at + 1, Digits), LAMBDA f : IF f = at + 1 THEN -1 ELSE f)

ExponentEnd(s, at) ==
    IF Peek(s, at) \notin {"e", "E"} THEN at
    ELSE With(IF Peek(s, at + 1) \in {"+", "-"} THEN at + 2 ELSE at + 1, LAMBDA x0 :
            With(RunEnd(s, x0, Digits), LAMBDA x : IF x = x0 THEN -1 ELSE x))

parseNumber(s, at) ==
    With(IF Peek(s, at) = "-" THEN at + 1 ELSE at, LAMBDA a0 :
    With(RunEnd(s, a0, Digits), LAMBDA a1 :
        IF a1 = a0 THEN JsonFail
        ELSE With(FractionEnd(s, a1), LAMBDA a2 :
                IF a2 < 0 THEN JsonFail
                ELSE With(ExponentEnd(s, a2), LAMBDA a3 :
                        IF a3 < 0 THEN JsonFail
                        ELSE JsonOk(a3, <<"N", SubSeq(s, at + 1, a3)>>)))))

\* the constructor objectid(hex); the position e is on the opening parenthesis
parseObjectId(s, e, strict) ==
    With(RunEnd(s, e + 1, HexRunes), LAMBDA h :
        IF strict \/ Peek(s, h) # ")" \/ h - (e + 1) < 24 \/ h - (e + 1) > 32
        THEN JsonFail
        ELSE JsonOk(h + 1, <<"I", SubSeq(s, e + 2, h)>>))

\* true, false, null and the constructor
parseBareword(s, at, strict) ==
    With(RunEnd(s, at, IdentRunes), LAMBDA e :
    With(SubSeq(s, at + 1, e), LAMBDA w :
        IF w \in {<<"t", "r", "u", "e">>, <<"f", "a", "l", "s", "e">>} THEN JsonOk(e, <<"B", w>>)
        ELSE IF w = <<"n", "u", "l", "l">> THEN JsonOk(e, <<"Z">>)
        ELSE IF w = <<"o", "b", "j", "e", "c", "t", "i", "d">> /\ Peek(s, e) = "(" THEN parseObjectId(s, e, strict)
        ELSE JsonFail))

\* a key read as the relaxed mode reads it, whatever the mode
parseKeyAnyMode(s, at, strict) ==
    IF Peek(s, at) = "\"" THEN parseString(s, at, "\"")
    ELSE IF Peek(s, at) = "'" THEN parseString(s, at, "'")
    ELSE With(RunEnd(s, at, IdentRunes), LAMBDA e :
            IF e = at THEN JsonFail ELSE JsonOk(e, <<"S", SubSeq(s, at + 1, e)>>))

\* a key: a double-quoted string, and in relaxed mode a single-quoted string
\* or a bareword
parseKey(s, at, strict) ==
    IF Peek(s, at) = "\"" THEN parseString(s, at, "\"")
    ELSE IF strict THEN JsonFail
    ELSE IF Peek(s, at) = "'" THEN parseString(s, at, "'")
    ELSE With(RunEnd(s, at, IdentRunes), LAMBDA e :
            IF e = at THEN JsonFail ELSE JsonOk(e, <<"S", SubSeq(s, at + 1, e)>>))

HasMember(members, key) == \E i \in 1..Len(members) : members[i][1] = key

\* a member with the key of m takes the value of m: the last one wins
PutMember(members, m) ==
    IF HasMember(members, m[1])
    THEN [i \in 1..Len(members) |-> IF members[i][1] = m[1] THEN m ELSE members[i]]
    ELSE Append(members, m)

RECURSIVE parseValue(_, _, _)

\* the members of an object from the first rune of a key to the closing brace
RECURSIVE parseMembers(_, _, _, _)
parseMembers(s, at, strict, acc) ==
    With(parseKey(s, at, strict), LAMBDA k :
        IF ~k.ok THEN JsonFail
        ELSE With(SkipSpaces(s, k.at), LAMBDA a1 :
        IF Peek(s, a1) # ":" THEN JsonFail
        ELSE With(parseValue(s, SkipSpaces(s, a1 + 1), strict), LAMBDA v :
        IF ~v.ok \/ (strict /\ HasMember(acc, k.val[2])) THEN JsonFail
        ELSE With(SkipSpaces(s, v.at), LAMBDA a3 :
             With(PutMember(acc, <<k.val[2], v.val>>), LAMBDA members :
        IF Peek(s, a3) = ","
        THEN With(SkipSpaces(s, a3 + 1), LAMBDA a4 : parseMembers(s, a4, strict, members))
        ELSE IF Peek(s, a3) = "}" THEN JsonOk(a3 + 1, <<"O", members>>)
        ELSE JsonFail)))))

\* the elements of an array from the first rune of a value to the closing bracket
RECURSIVE parseElements(_, _, _, _)
parseElements(s, at, strict, acc) ==
    With(parseValue(s, at, strict), LAMBDA v :
        IF ~v.ok THEN JsonFail
        ELSE With(SkipSpaces(s, v.at), LAMBDA a1 :
             With(Append(acc, v.val), LAMBDA elements :
        IF Peek(s, a1) = ","
        THEN With(SkipSpaces(s, a1 + 1), LAMBDA a2 : parseElements(s, a2, strict, elements))
        ELSE IF Peek(s, a1) = "]" THEN JsonOk(a1 + 1, <<"A", elements>>)
        ELSE JsonFail)))

\* the position is on the opening brace
parseObject(s, at, strict) ==
    With(SkipSpaces(s, at + 1), LAMBDA a1 :
        IF Peek(s, a1) = "}" THEN JsonOk(a1 + 1, <<"O", <<>>>>)
        ELSE parseMembers(s, a1, strict, <<>>))

\* the position is on the opening bracket
parseArray(s, at, strict) ==
    With(SkipSpaces(s, at + 1), LAMBDA a1 :
        IF Peek(s, a1) = "]" THEN JsonOk(a1 + 1, <<"A", <<>>>>)
        ELSE parseElements(s, a1, strict, <<>>))

parseValue(s, at0, strict) ==
    With(at0, LAMBDA at :
    With(Peek(s, at), LAMBDA c :
        IF c = "{" THEN parseObject(s, at, strict)
        ELSE IF c = "[" THEN parseArray(s, at, strict)
        ELSE IF c = "\"" THEN parseString(s, at, "\"")
        ELSE IF c = "'" THEN (IF strict THEN JsonFail ELSE parseString(s, at, "'"))
        ELSE IF c = "/" THEN parseRegex(s, at)
        ELSE IF c = "-" \/ c \in Digits THEN parseNumber(s, at)
        ELSE parseBareword(s, at, strict)))

\* one document from position at: an object; the relaxed mode passes the
\* blanks after it, the strict mode takes the document to end the text
ParseJsonAt(s0, at, strict) ==
    With(s0, LAMBDA s :
    With(SkipSpaces(s, at), LAMBDA a0 :
        IF Peek(s, a0) # "{" THEN JsonFail
        ELSE With(parseObject(s, a0, strict), LAMBDA o :
                IF ~o.ok THEN JsonFail
                ELSE IF strict THEN (IF o.at = Len(s) THEN o ELSE JsonFail)
                ELSE JsonOk(SkipSpaces(s, o.at), o.val))))

ParseJson(source, strict) == ParseJsonAt(source, 0, strict)

\* the document at the cursor of a reader, and the reader after it
ParseJsonRunes(r0, strict) ==
    With(r0, LAMBDA r :
    With(ParseJsonAt(r.runes, r.next, strict), LAMBDA p :
        [ok |-> p.ok, val |-> p.val, r |-> IF p.ok THEN [r EXCEPT !.next = p.at] ELSE r]))

(***************************************************************************)
(* The rune reader, as the decoders of the message bodies use it           *)
(***************************************************************************)
\* the runes at the cursor spell str
ExpectString(r, str) ==
    /\ r.next + Len(str) <= Len(r.runes)
    /\ SubSeq(r.runes, r.next + 1, r.next + Len(str)) = str

Skip(r, n) == [r EXCEPT !.next = IF @ + n > Len(r.runes) THEN Len(r.runes) ELSE @ + n]

ChompWS(r) == [r EXCEPT !.next = SkipSpaces(r.runes, @)]

RECURSIVE SkipWords(_, _)
SkipWords(r, n) == IF n = 0 THEN r ELSE SkipWords(SlurpWord(r).r, n - 1)

\* the index of the first rune c of a word, 0 when there is none
IndexOf(word, c) ==
    LET at == { k \in 1..Len(word) : word[k] = c }
    IN  IF at = {} THEN 0 ELSE CHOOSE k \in at : \A j \in at : k <= j

(***************************************************************************)
(* The parts of a message body that the decoders of 3.6 and 4.0 share      *)
(***************************************************************************)
NoMessage ==
    [variant |-> "None", Namespace |-> <<>>, Name |-> <<>>, Counters |-> <<>>,
     Exception |-> <<>>, Protocol |-> <<>>, Duration |-> <<>>]

Part(ok, err, r, msg) == [ok |-> ok, err |-> err, r |-> r, msg |-> msg]

\* "command <ns> command: <name> <payload>"
CommandPreamble(r) ==
    With(SlurpWord(r), LAMBDA w1 :
    With(SlurpWord(w1.r), LAMBDA ns :
    With(SlurpWord(ns.r), LAMBDA w3 :
    With(SlurpWord(w3.r), LAMBDA name :
        IF ~w1.ok \/ ~ns.ok \/ ~w3.ok \/ ~name.ok THEN Part(FALSE, "UnexpectedEOL", r, NoMessage)
        ELSE IF w1.word # <<"c", "o", "m", "m", "a", "n", "d">> \/ w3.word # <<"c", "o", "m", "m", "a", "n", "d", ":">>
        THEN Part(FALSE, "CommandStructure", r, NoMessage)
        ELSE IF ~ExpectRune(name.r, "{") THEN Part(FALSE, "CommandStructure", r, NoMessage)
        ELSE With(ParseJsonRunes(name.r, FALSE), LAMBDA payload :
                IF ~payload.ok THEN Part(FALSE, "JsonError", r, NoMessage)
                ELSE Part(TRUE, "nil", payload.r,
                          [NoMessage EXCEPT !.variant = "Command", !.Namespace = ns.word,
                                            !.Name = name.word]))))))

\* "<op> <ns>"
OperationPreamble(r) ==
    With(SlurpWord(r), LAMBDA op :
    With(SlurpWord(op.r), LAMBDA ns :
        IF ~op.ok \/ ~ns.ok THEN Part(FALSE, "UnexpectedEOL", r, NoMessage)
        ELSE Part(TRUE, "nil", ns.r,
                  [NoMessage EXCEPT !.variant = "Operation", !.Namespace = ns.word,
                                    !.Name = op.word])))

\* a document read from the cursor at, when there is one to read; the cursor
\* stays at r when there is none
Document(there, r, at) ==
    IF ~there THEN [ok |-> TRUE, r |-> r]
    ELSE With(ParseJsonRunes(at, FALSE), LAMBDA doc : [ok |-> doc.ok, r |-> doc.r])

\* a stage name, and the index document that may follow it
PlanSummary(r) ==
    With(SlurpWord(r), LAMBDA w :
        IF ~w.ok \/ ~(\A k \in 1..Len(w.word) : w.word[k] \in Letters \cup {"_"})
        THEN [ok |-> FALSE, r |-> r]
        ELSE Document(ExpectRune(w.r, "{"), w.r, w.r))

\* the free-form text of an exception: the runes up to the counter numYields
RECURSIVE Exception(_)
Exception(r0) ==
    With(r0, LAMBDA r :
        IF EOL(r) THEN [ok |-> FALSE, r |-> r]
        ELSE IF ExpectString(r, <<"n", "u", "m", "Y", "i", "e", "l", "d", "s", ":">>) THEN [ok |-> TRUE, r |-> r]
        ELSE Exception(SlurpWord(r).r))

IsInteger(num) ==
    With(IF num # <<>> /\ num[1] = "-" THEN Tail(num) ELSE num, LAMBDA digits :
        digits # <<>> /\ \A k \in 1..Len(digits) : digits[k] \in Digits)

\* "name:integer": the counter is recorded under the name the table gives
IntegerKeyValue(param, target, limit) ==
    With(IndexOf(param, ":"), LAMBDA at :
    With(SubSeq(param, 1, at - 1), LAMBDA key :
    With(SubSeq(param, at + 1, Len(param)), LAMBDA num :
        IF at > 0 /\ key \in DOMAIN limit /\ IsInteger(num)
        THEN [ok |-> TRUE, target |-> (limit[key] :> num) @@ target]
        ELSE [ok |-> FALSE, target |-> target])))

\* "locks:<document>", when the cursor is on it
Locks(r) == Document(ExpectString(r, <<"l", "o", "c", "k", "s", ":">>), r, Skip(r, 6))

\* "storage:<document>", when the cursor is on it
Storage(r) == Document(ExpectString(r, <<"s", "t", "o", "r", "a", "g", "e", ":">>), r, Skip(r, 8))

\* "protocol:<tag>"
Protocol(r) ==
    With(SlurpWord(r), LAMBDA w :
        IF w.ok /\ Len(w.word) > 9 /\ SubSeq(w.word, 1, 9) = <<"p", "r", "o", "t", "o", "c", "o", "l", ":">>
        THEN [ok |-> TRUE, tag |-> SubSeq(w.word, 10, Len(w.word)), r |-> w.r]
        ELSE [ok |-> FALSE, tag |-> <<>>, r |-> r])

\* "<integer>ms"
Duration(r) ==
    With(SlurpWord(r), LAMBDA w :
    With(Len(w.word), LAMBDA n :
        IF w.ok /\ n > 2 /\ SubSeq(w.word, n - 1, n) = <<"m", "s">> /\ IsNumeric(SubSeq(w.word, 1, n - 2))
        THEN [ok |-> TRUE, ms |-> SubSeq(w.word, 1, n - 2), r |-> w.r]
        ELSE [ok |-> FALSE, ms |-> <<>>, r |-> r]))

\* util.ArrayBinaryMatchString over the operations of a WRITE line
ExpectedOperations ==
    { <<"c", "o", "m", "m", "a", "n", "d">>, <<"c", "o", "m", "m", "a", "n", "d", "R", "e", "p", "l", "y">>, <<"c", "o", "m", "p", "r", "e", "s", "s", "e", "d">>, <<"g", "e", "t", "m", "o", "r", "e">>, <<"i", "n", "s", "e", "r", "t">>,
      <<"k", "i", "l", "l", "c", "u", "r", "s", "o", "r", "s">>, <<"m", "s", "g">>, <<"n", "o", "n", "e">>, <<"q", "u", "e", "r", "y">>, <<"r", "e", "m", "o", "v", "e">>, <<"r", "e", "p", "l", "y">>,
      <<"u", "p", "d", "a", "t", "e">> }

(***************************************************************************)
(* Version36Parser and Version40Parser: the instances, and the decoders of *)
(* a COMMAND and of a WRITE body.  A decoder is at rest ("idle"), in the   *)
(* counter loop ("Expect-Counter", "Expect-Exception"), past the loop      *)
(* ("Done"), or has returned ("ok", "failed").                             *)
(***************************************************************************)
\* the rename table both factories build: three counters change their name
Renamed ==
    { <<<<"n", "o", "t", "o", "r", "e", "t", "u", "r", "n">>, <<"n", "t", "o", "r", "e", "t", "u", "r", "n">>>>,
      <<<<"n", "M", "a", "t", "c", "h", "e", "d">>, <<"n", "m", "a", "t", "c", "h", "e", "d">>>>,
      <<<<"n", "M", "o", "d", "i", "f", "i", "e", "d">>, <<"n", "m", "o", "d", "i", "f", "i", "e", "d">>>> }

SameName ==
    {
      <<"c", "u", "r", "s", "o", "r", "i", "d">>,
      <<"n", "t", "o", "s", "k", "i", "p">>,
      <<"e", "x", "h", "a", "u", "s", "t">>,
      <<"k", "e", "y", "s", "E", "x", "a", "m", "i", "n", "e", "d">>,
      <<"d", "o", "c", "s", "E", "x", "a", "m", "i", "n", "e", "d">>,
      <<"h", "a", "s", "S", "o", "r", "t", "S", "t", "a", "g", "e">>,
      <<"f", "r", "o", "m", "M", "u", "l", "t", "i", "P", "l", "a", "n", "n", "e", "r">>,
      <<"r", "e", "p", "l", "a", "n", "n", "e", "d">>,
      <<"n", "i", "n", "s", "e", "r", "t", "e", "d">>,
      <<"n", "d", "e", "l", "e", "t", "e", "d">>,
      <<"n", "r", "e", "t", "u", "r", "n", "e", "d">>,
      <<"f", "a", "s", "t", "m", "o", "d", "i", "n", "s", "e", "r", "t">>,
      <<"u", "p", "s", "e", "r", "t">>,
      <<"c", "u", "r", "s", "o", "r", "E", "x", "h", "a", "u", "s", "t", "e", "d">>,
      <<"n", "m", "o", "v", "e", "d">>,
      <<"k", "e", "y", "s", "I", "n", "s", "e", "r", "t", "e", "d">>,
      <<"k", "e", "y", "s", "D", "e", "l", "e", "t", "e", "d">>,
      <<"w", "r", "i", "t", "e", "C", "o", "n", "f", "l", "i", "c", "t", "s">>,
      <<"n", "u", "m", "Y", "i", "e", "l", "d", "s">>,
      <<"r", "e", "s", "l", "e", "n">> }

counters ==
    [k \in SameName \cup { rn[1] : rn \in Renamed } |->
        IF k \in SameName THEN k ELSE (CHOOSE rn \in Renamed : rn[1] = k)[2]]

\* the instances the factories register
NewVersion36Parser == [counters |-> counters, versionFlag |-> TRUE]
NewVersion40Parser == [counters |-> counters]
NewParsers == (36 :> NewVersion36Parser) @@ (40 :> NewVersion40Parser)

Decoding(state, v, kind, r, msg, err) ==
    [state |-> state, v |-> v, kind |-> kind, r |-> r, msg |-> msg, err |-> err]

Failed(d, err) == [d EXCEPT !.state = "failed", !.msg = NoMessage, !.err = err]

\* originatingCommand, as command reads it
OriginatingCommand(r) == Document(ExpectString(r, <<"o", "r", "i", "g", "i", "n", "a", "t", "i", "n", "g", "C", "o", "m", "m", "a", "n", "d">>), r, SkipWords(r, 1))

\* originatingCommand:, as operation reads it
OriginatingOperation(r) ==
    Document(ExpectString(r, <<"o", "r", "i", "g", "i", "n", "a", "t", "i", "n", "g", "C", "o", "m", "m", "a", "n", "d", ":">>), r, ChompWS(Skip(r, 19)))

\* planSummary:, when the cursor is on it
PlanSummaryPart(r) ==
    IF ExpectString(r, <<"p", "l", "a", "n", "S", "u", "m", "m", "a", "r", "y", ":">>) THEN PlanSummary(ChompWS(Skip(r, 12)))
    ELSE [ok |-> TRUE, r |-> r]

\* command, up to the counter loop (the same in 3.6 and 4.0)
commandHead(v, r) ==
    With(Decoding("Expect-Counter", v, "command", r, NoMessage, "nil"), LAMBDA d :
    With(CommandPreamble(r), LAMBDA pre :
        IF ~pre.ok THEN Failed(d, pre.err)
        ELSE With(OriginatingCommand(pre.r), LAMBDA orig :
        IF ~orig.ok THEN Failed(d, "JsonError")
        ELSE With(PlanSummaryPart(orig.r), LAMBDA plan :
        IF ~plan.ok THEN Failed(d, "PlanSummaryError")
        ELSE [d EXCEPT !.r = plan.r, !.msg = pre.msg]))))

\* 3.6 clears versionFlag when it does not expect the operation
Unexpected(v, p) == IF v = 36 THEN [p EXCEPT !.versionFlag = FALSE] ELSE p

\* operation, up to the counter loop
operationHead(v, p, r) ==
    With(Decoding("Expect-Counter", v, "operation", r, NoMessage, "nil"), LAMBDA d :
    With(OperationPreamble(r), LAMBDA pre :
        IF ~pre.ok THEN [d |-> Failed(d, pre.err), p |-> p]
        ELSE IF pre.msg.Name \notin ExpectedOperations
        THEN [d |-> Failed(d, "VersionUnmatched"), p |-> Unexpected(v, p)]
        ELSE With(SlurpWord(pre.r), LAMBDA c :
        IF ~c.ok THEN [d |-> Failed(d, "UnexpectedEOL"), p |-> p]
        ELSE IF c.word # <<"c", "o", "m", "m", "a", "n", "d", ":">> THEN [d |-> Failed(d, "VersionUnmatched"), p |-> p]
        ELSE IF ~ExpectRune(c.r, "{") THEN [d |-> Failed(d, "OperationStructure"), p |-> p]
        ELSE With(ParseJsonRunes(c.r, FALSE), LAMBDA payload :
        IF ~payload.ok THEN [d |-> Failed(d, "JsonError"), p |-> p]
        ELSE With(OriginatingOperation(payload.r), LAMBDA orig :
        IF ~orig.ok THEN [d |-> Failed(d, "JsonError"), p |-> p]
        ELSE With(PlanSummaryPart(orig.r), LAMBDA plan :
        IF ~plan.ok THEN [d |-> Failed(d, "PlanSummaryError"), p |-> p]
        ELSE [d |-> [d EXCEPT !.r = plan.r, !.msg = pre.msg], p |-> p]))))))

\* one turn of the counter loop, up to the text of an exception
counterLoop(d, limit) ==
    With(SlurpWord(d.r), LAMBDA param :
        IF ~param.ok THEN [d EXCEPT !.state = "Done", !.r = param.r]
        ELSE IF param.word = <<"e", "x", "c", "e", "p", "t", "i", "o", "n", ":">>
        THEN [d EXCEPT !.state = "Expect-Exception", !.r = param.r]
        ELSE IF Len(param.word) > 6 /\ SubSeq(param.word, 1, 6) = <<"l", "o", "c", "k", "s", ":">>
        THEN [d EXCEPT !.state = "Done", !.r = RewindSlurpWord(param.r)]
        ELSE With(IntegerKeyValue(param.word, d.msg.Counters, limit), LAMBDA kv :
                IF ~kv.ok THEN Failed(d, "CounterUnrecognized")
                ELSE [d EXCEPT !.r = param.r, !.msg.Counters = kv.target]))

\* the text of the exception, within the turn that read `exception:`
counterLoopException(d) ==
    With(Exception(d.r), LAMBDA e :
        IF ~e.ok THEN Failed(d, "UnexpectedExceptionFormat")
        ELSE [d EXCEPT !.state = "Expect-Counter", !.r = e.r,
                       !.msg.Exception = SubSeq(d.r.runes, d.r.next + 1, e.r.next)])

ProtocolTags == { <<"o", "p", "_", "m", "s", "g">>, <<"o", "p", "_", "q", "u", "e", "r", "y">>, <<"o", "p", "_", "c", "o", "m", "m", "a", "n", "d">> }

\* the duration at the end of the line: the message is complete
durationTail(d, p, r, tag) ==
    With(Duration(r), LAMBDA dur :
        IF ~dur.ok THEN [d |-> Failed(d, "DurationError"), p |-> p]
        ELSE [d |-> [d EXCEPT !.state = "ok", !.r = dur.r, !.msg.Protocol = tag,
                              !.msg.Duration = dur.ms],
              p |-> p])

\* what Protocol may return as its error when the cursor is not on a
\* `protocol:` word: the decoders hand it on as it is
ProtocolErrors == {"VersionUnmatched", "MisplacedWord"}

\* Version36Parser.command past the loop: locks, protocol, duration
commandTail36(d, p, perr) ==
    With(Locks(d.r), LAMBDA locks :
        IF ~locks.ok THEN [d |-> Failed(d, "JsonError"), p |-> p]
        ELSE With(Protocol(locks.r), LAMBDA proto :
        IF ~proto.ok THEN [d |-> Failed(d, perr), p |-> p]
        ELSE IF proto.tag \notin ProtocolTags
        THEN [d |-> Failed(d, "VersionUnmatched"), p |-> [p EXCEPT !.versionFlag = FALSE]]
        ELSE durationTail(d, p, proto.r, proto.tag)))

\* commandTail40 without the test of the protocol value
commandTail40AnyProtocol(d, p, perr) ==
    With(Locks(d.r), LAMBDA locks :
        IF ~locks.ok THEN [d |-> Failed(d, "JsonError"), p |-> p]
        ELSE With(Storage(locks.r), LAMBDA storage :
        IF ~storage.ok THEN [d |-> Failed(d, "VersionUnmatched"), p |-> p]
        ELSE With(Protocol(storage.r), LAMBDA proto :
        IF ~proto.ok THEN [d |-> Failed(d, perr), p |-> p]
        ELSE durationTail(d, p, proto.r, proto.tag))))

\* Version40Parser.command past the loop: locks, storage, protocol, duration
commandTail40(d, p, perr) ==
    With(Locks(d.r), LAMBDA locks :
        IF ~locks.ok THEN [d |-> Failed(d, "JsonError"), p |-> p]
        ELSE With(Storage(locks.r), LAMBDA storage :
        IF ~storage.ok THEN [d |-> Failed(d, "VersionUnmatched"), p |-> p]
        ELSE With(Protocol(storage.r), LAMBDA proto :
        IF ~proto.ok THEN [d |-> Failed(d, perr), p |-> p]
        ELSE IF proto.tag \notin ProtocolTags THEN [d |-> Failed(d, "VersionUnmatched"), p |-> p]
        ELSE durationTail(d, p, proto.r, proto.tag))))

\* Version36Parser.operation past the loop: `locks:` is skipped, then the
\* lock document and the duration
operationTail36(d, p) ==
    With(ParseJsonRunes(Skip(d.r, 6), FALSE), LAMBDA locks :
        IF ~locks.ok THEN [d |-> Failed(d, "JsonError"), p |-> p]
        ELSE durationTail(d, p, locks.r, <<>>))

\* Version40Parser.operation past the loop: `locks:` is skipped, then the
\* lock document, the storage document and the duration
operationTail40(d, p) ==
    With(ParseJsonRunes(Skip(d.r, 6), FALSE), LAMBDA locks :
        IF ~locks.ok THEN [d |-> Failed(d, "JsonError"), p |-> p]
        ELSE With(Storage(locks.r), LAMBDA storage :
        IF ~storage.ok THEN [d |-> Failed(d, "JsonError"), p |-> p]
        ELSE durationTail(d, p, storage.r, <<>>)))

decodeTail(d, p, perr) ==
    CASE d.v = 36 /\ d.kind = "command" -> commandTail36(d, p, perr)
      [] d.v = 40 /\ d.kind = "command" -> commandTail40(d, p, perr)
      [] d.v = 36 /\ d.kind = "operation" -> operationTail36(d, p)
      [] d.v = 40 /\ d.kind = "operation" -> operationTail40(d, p)

(***************************************************************************)
(* The version parsers 3.4, 3.6 and 4.0: Check                             *)
(***************************************************************************)
Versions == {34, 36, 40}

\* Version34Parser.Check
Check34(b) == ~b.CString /\ b.Severity # SeverityNone /\ b.RawComponent # <<>>

\* Version36Parser.Check
Check36(b) == b.Severity # SeverityNone /\ b.RawComponent # <<>>

\* Version40Parser.Check
Check40(b) == b.Severity # SeverityNone /\ b.RawComponent # <<>>

Check(v, b) ==
    CASE v = 34 -> Check34(b)
      [] v = 36 -> Check36(b)
      [] v = 40 -> Check40(b)

NotChecked == [v |-> 0, ok |-> FALSE]

\* the decoder of a message body at rest
NoDecode == Decoding("idle", 0, "", NewRuneReader(<<>>), NoMessage, "nil")

\* a parser is offered the base line at hand
CheckCall(v) ==
    /\ baseErr = "nil"
    /\ decode.state \in {"idle", "ok", "failed"}
    /\ checked' = [v |-> v, ok |-> Check(v, base)]
    /\ decode' = NoDecode
    /\ UNCHANGED <<parser, entries, baseVars, queryVars, jsonVars, logVars>>

(***************************************************************************)
(* NewLogMessage of 3.6 and 4.0, in the steps of its decoder               *)
(***************************************************************************)
\* the switch on the component, and the decoder up to the counter loop
newLogMessage(v, p, entry) ==
    LET r == NewRuneReader(entry.RawMessage)
        d0 == Decoding("idle", v, "", r, NoMessage, "nil")
    IN  IF entry.RawComponent = <<"C", "O", "M", "M", "A", "N", "D">> THEN [d |-> commandHead(v, r), p |-> p]
        ELSE IF entry.RawComponent = <<"W", "R", "I", "T", "E">> THEN operationHead(v, p, r)
        ELSE IF entry.RawComponent \in {<<"C", "O", "N", "T", "R", "O", "L">>, <<"N", "E", "T", "W", "O", "R", "K">>, <<"S", "T", "O", "R", "A", "G", "E">>}
        THEN [d |-> [d0 EXCEPT !.state = "ok", !.msg.variant = "Other"], p |-> p]
        ELSE [d |-> Failed(d0, "VersionUnmatched"), p |-> p]

NewLogMessage(v) ==
    /\ baseErr = "nil"
    /\ v \in {36, 40}
    /\ checked = [v |-> v, ok |-> TRUE]
    /\ decode.state = "idle"
    /\ LET res == newLogMessage(v, parser[v], base)
       IN  /\ decode' = res.d
           /\ parser' = [parser EXCEPT ![v] = res.p]
    /\ UNCHANGED <<checked, entries, baseVars, queryVars, jsonVars, logVars>>

\* one turn of the counter loop
CounterStep ==
    /\ decode.state = "Expect-Counter"
    /\ decode' = counterLoop(decode, parser[decode.v].counters)
    /\ UNCHANGED <<checked, parser, entries, baseVars, queryVars, jsonVars, logVars>>

\* the text after `exception:`
ExceptionStep ==
    /\ decode.state = "Expect-Exception"
    /\ decode' = counterLoopException(decode)
    /\ UNCHANGED <<checked, parser, entries, baseVars, queryVars, jsonVars, logVars>>

\* the decoder past the loop, to its return
DecodeTail ==
    /\ decode.state = "Done"
    /\ \E perr \in ProtocolErrors :
         \E res \in {decodeTail(decode, parser[decode.v], perr)} :
           /\ decode' = res.d
           /\ parser' = [parser EXCEPT ![decode.v] = res.p]
    /\ UNCHANGED <<checked, entries, baseVars, queryVars, jsonVars, logVars>>

\* the next line of the file goes to the same parser instances
NextLine(lines) ==
    /\ decode.state \in {"ok", "failed"}
    /\ entries < MaxEntries
    /\ rawLine' \in lines
    /\ base' = NoBase
    /\ baseErr' = "pending"
    /\ checked' = NotChecked
    /\ decode' = NoDecode
    /\ entries' = entries + 1
    /\ UNCHANGED <<parser, queryVars, jsonVars, logVars>>

(***************************************************************************)
(* The lines fed to the parsers: a header, the start of a body, up to      *)
(* MaxLoop items for the counter loop, and the end of the body             *)
(***************************************************************************)
HeaderCommand == IsoDate \o <<" ", "I", " ", "C", "O", "M", "M", "A", "N", "D", " ", "[", "c", "]", " ">>
HeaderCommandCtime == CDate \o <<" ", "I", " ", "C", "O", "M", "M", "A", "N", "D", " ", "[", "c", "]", " ">>
HeaderWrite == IsoDate \o <<" ", "I", " ", "W", "R", "I", "T", "E", " ", "[", "c", "]", " ">>
HeaderWriteCtime == CDate \o <<" ", "I", " ", "W", "R", "I", "T", "E", " ", "[", "c", "]", " ">>

CommandStarts ==
    { <<"c", "o", "m", "m", "a", "n", "d", " ", "d", ".", "a", " ", "c", "o", "m", "m", "a", "n", "d", ":", " ", "f", "i", "n", "d", " ", "{", " ", "f", "i", "n", "d", ":", " ", "\"", "a", "\"", ",", " ", "f", "i", "l", "t", "e", "r", ":", " ", "{", " ", "a", ":", " ", "1", " ", "}", " ", "}", " ">>,
      <<"c", "o", "m", "m", "a", "n", "d", " ", "d", ".", "a", " ", "c", "o", "m", "m", "a", "n", "d", ":", " ", "f", "i", "n", "d", " ", "{", " ", "f", "i", "n", "d", ":", " ", "\"", "a", "\"", " ", "}", " ", "p", "l", "a", "n", "S", "u", "m", "m", "a", "r", "y", ":", " ", "I", "X", "S", "C", "A", "N", " ", "{", " ", "a", ":", " ", "1", " ", "}", " ">> }

WriteStarts ==
    { <<"u", "p", "d", "a", "t", "e", " ", "d", ".", "a", " ", "c", "o", "m", "m", "a", "n", "d", ":", " ", "{", " ", "q", ":", " ", "{", " ", "a", ":", " ", "1", " ", "}", ",", " ", "u", ":", " ", "{", " ", "b", ":", " ", "2", " ", "}", " ", "}", " ", "p", "l", "a", "n", "S", "u", "m", "m", "a", "r", "y", ":", " ", "C", "O", "L", "L", "S", "C", "A", "N", " ">>,
      <<"b", "o", "g", "u", "s", " ", "d", ".", "a", " ", "c", "o", "m", "m", "a", "n", "d", ":", " ", "{", " ", "q", ":", " ", "{", " ", "a", ":", " ", "1", " ", "}", " ", "}", " ">> }

LoopItems ==
    { <<"n", "r", "e", "t", "u", "r", "n", "e", "d", ":", "1", " ">>, <<"n", "M", "a", "t", "c", "h", "e", "d", ":", "2", " ">>, <<"b", "o", "g", "u", "s", ":", "1", " ">>,
      <<"e", "x", "c", "e", "p", "t", "i", "o", "n", ":", " ", "b", "o", "o", "m", " ", "n", "u", "m", "Y", "i", "e", "l", "d", "s", ":", "0", " ">>, <<"e", "x", "c", "e", "p", "t", "i", "o", "n", ":", " ", "b", "o", "o", "m", " ">> }

CommandEnds ==
    { <<"l", "o", "c", "k", "s", ":", "{", "}", " ", "p", "r", "o", "t", "o", "c", "o", "l", ":", "o", "p", "_", "m", "s", "g", " ", "1", "0", "m", "s">>,
      <<"l", "o", "c", "k", "s", ":", "{", " ", "w", ":", " ", "1", " ", "}", " ", "s", "t", "o", "r", "a", "g", "e", ":", "{", "}", " ", "p", "r", "o", "t", "o", "c", "o", "l", ":", "o", "p", "_", "c", "o", "m", "m", "a", "n", "d", " ", "1", "0", "m", "s">>,
      <<"l", "o", "c", "k", "s", ":", "{", "}", " ", "p", "r", "o", "t", "o", "c", "o", "l", ":", "o", "p", "_", "g", "e", "t", "m", "o", "r", "e", " ", "1", "0", "m", "s">>,
      <<"l", "o", "c", "k", "s", ":", "{", "}", " ", "1", "0", "m", "s">>,
      <<"l", "o", "c", "k", "s", ":", " ", "{", "}", " ", "p", "r", "o", "t", "o", "c", "o", "l", ":", "o", "p", "_", "q", "u", "e", "r", "y", " ", "1", "0", "m", "s">>,
      <<"p", "r", "o", "t", "o", "c", "o", "l", ":", "o", "p", "_", "q", "u", "e", "r", "y", " ", "1", "0", "m", "s">>,
      <<>> }

WriteEnds ==
    { <<"l", "o", "c", "k", "s", ":", "{", "}", " ", "1", "0", "m", "s">>,
      <<"l", "o", "c", "k", "s", ":", "{", " ", "w", ":", " ", "1", " ", "}", " ", "s", "t", "o", "r", "a", "g", "e", ":", "{", "}", " ", "1", "0", "m", "s">>,
      <<"l", "o", "c", "k", "s", ":", "{", "}", " ", "p", "r", "o", "t", "o", "c", "o", "l", ":", "o", "p", "_", "m", "s", "g", " ", "1", "0", "m", "s">>,
      <<"l", "o", "c", "k", "s", ":", " ", "{", "}", " ", "1", "0", "m", "s">>,
      <<>> }

RECURSIVE Concat(_)
Concat(ws) == IF ws = <<>> THEN <<>> ELSE ws[1] \o Concat(Tail(ws))

OtherLines ==
    { IsoDate \o <<" ", "I", " ", "C", "O", "N", "T", "R", "O", "L", " ", "[", "c", "]", " ", "p", "i", "d", "=", "1">>,
      IsoDate \o <<" ", "I", " ", "-", " ", "[", "c", "]", " ", "x">>,
      IsoDate \o <<" ", "[", "c", "]", " ", "x">>,
      CDate \o <<" ", "[", "c", "]", " ", "x">> }

ParserLines ==
    { h \o s \o Concat(items) \o e :
        h \in {HeaderCommand, HeaderCommandCtime}, s \in CommandStarts,
        items \in SeqsUpTo(LoopItems, MaxLoop), e \in CommandEnds }
    \cup
    { h \o s \o Concat(items) \o e :
        h \in {HeaderWrite, HeaderWriteCtime}, s \in WriteStarts,
        items \in SeqsUpTo(LoopItems, MaxLoop), e \in WriteEnds }
    \cup OtherLines

\* the lines of a file that one parser instance decodes one after the other
ReuseLines ==
    { HeaderCommand \o <<"c", "o", "m", "m", "a", "n", "d", " ", "d", ".", "a", " ", "c", "o", "m", "m", "a", "n", "d", ":", " ", "f", "i", "n", "d", " ", "{", " ", "f", "i", "n", "d", ":", " ", "\"", "a", "\"", " ", "}", " ", "n", "r", "e", "t", "u", "r", "n", "e", "d", ":", "1", " ", "l", "o", "c", "k", "s", ":", "{", "}", " ", "p", "r", "o", "t", "o", "c", "o", "l", ":", "o", "p", "_", "m", "s", "g", " ", "1", "0", "m", "s">>,
      HeaderCommand \o <<"c", "o", "m", "m", "a", "n", "d", " ", "d", ".", "a", " ", "c", "o", "m", "m", "a", "n", "d", ":", " ", "f", "i", "n", "d", " ", "{", " ", "f", "i", "n", "d", ":", " ", "\"", "a", "\"", " ", "}", " ", "n", "r", "e", "t", "u", "r", "n", "e", "d", ":", "1", " ", "l", "o", "c", "k", "s", ":", "{", "}", " ", "p", "r", "o", "t", "o", "c", "o", "l", ":", "o", "p", "_", "g", "e", "t", "m", "o", "r", "e", " ", "1", "0", "m", "s">>,
      HeaderCommand \o <<"c", "o", "m", "m", "a", "n", "d", " ", "d", ".", "a", " ", "c", "o", "m", "m", "a", "n", "d", ":", " ", "f", "i", "n", "d", " ", "{", " ", "f", "i", "n", "d", ":", " ", "\"", "a", "\"", " ", "}", " ", "b", "o", "g", "u", "s", ":", "1", " ", "l", "o", "c", "k", "s", ":", "{", "}", " ", "p", "r", "o", "t", "o", "c", "o", "l", ":", "o", "p", "_", "m", "s", "g", " ", "1", "0", "m", "s">>,
      HeaderWrite \o <<"u", "p", "d", "a", "t", "e", " ", "d", ".", "a", " ", "c", "o", "m", "m", "a", "n", "d", ":", " ", "{", " ", "q", ":", " ", "{", " ", "a", ":", " ", "1", " ", "}", " ", "}", " ", "n", "M", "a", "t", "c", "h", "e", "d", ":", "1", " ", "l", "o", "c", "k", "s", ":", "{", "}", " ", "1", "0", "m", "s">>,
      HeaderWrite \o <<"b", "o", "g", "u", "s", " ", "d", ".", "a", " ", "c", "o", "m", "m", "a", "n", "d", ":", " ", "{", " ", "q", ":", " ", "{", " ", "a", ":", " ", "1", " ", "}", " ", "}", " ", "n", "M", "a", "t", "c", "h", "e", "d", ":", "1", " ", "l", "o", "c", "k", "s", ":", "{", "}", " ", "1", "0", "m", "s">>,
      HeaderCommand \o <<"c", "o", "m", "m", "a", "n", "d", " ", "d", ".", "a", " ", "c", "o", "m", "m", "a", "n", "d", ":", " ", "f", "i", "n", "d", " ", "{", " ", "f", "i", "n", "d", ":", " ", "\"", "a", "\"", " ", "}", " ", "e", "x", "c", "e", "p", "t", "i", "o", "n", ":", " ", "b", "o", "o", "m", " ", "n", "u", "m", "Y", "i", "e", "l", "d", "s", ":", "0", " ", "l", "o", "c", "k", "s", ":", "{", "}", " ", "p", "r", "o", "t", "o", "c", "o", "l", ":", "o", "p", "_", "m", "s", "g", " ", "1", "0", "m", "s">>,
      IsoDate \o <<" ", "I", " ", "C", "O", "N", "T", "R", "O", "L", " ", "[", "c", "]", " ", "p", "i", "d", "=", "1">> }

(***************************************************************************)
(* Specifications                                                          *)
(***************************************************************************)
\* no document handed to ParseJson
NoJson == [doc |-> <<>>, strict |-> FALSE, state |-> "idle", result |-> <<"Z">>]

\* no Log line source opened, and no call of Next or Close under way
NoLog == [open |-> FALSE]
NoCall == [open |-> FALSE]

InitRestIdle ==
    /\ json = NoJson
    /\ file = NoLog
    /\ call = NoCall

InitQuery ==
    /\ Log = <<>>
    /\ pc = [i \in Instances |-> "new"]
    /\ seen = [i \in Instances |-> <<>>]
    /\ summaryTable = <<>>
    /\ wrap = FALSE

InitBaseIdle ==
    /\ rawLine = <<>>
    /\ base = NoBase
    /\ baseErr = "none"

InitParserIdle ==
    /\ checked = NotChecked
    /\ parser = <<>>
    /\ decode = NoDecode
    /\ entries = 0

Init ==
    /\ InitQuery
    /\ InitRestIdle
    /\ input = [i \in Instances |-> <<>>]
    /\ InitBaseIdle
    /\ InitParserIdle

Next ==
    \/ \E i \in Instances, opts \in SortArgs, w \in BOOLEAN : Prepare(i, opts, w)
    \/ \E i \in Instances, line \in Lines : Run(i, line)
    \/ \E i \in Instances : RunReturn(i)
    \/ \E i \in Instances : Finish(i)

Spec == Init /\ [][Next]_vars

\* the files Run consumes whole: every short file, and the long ones
FileInputs == SeqsUpTo(Lines, MaxLines) \cup LongInputs

InitBase ==
    /\ InitQuery
    /\ InitRestIdle
    /\ input = [i \in Instances |-> <<>>]
    /\ rawLine \in BaseLines
    /\ base = NoBase
    /\ baseErr = "pending"
    /\ InitParserIdle

NextBase == NewBaseCall

SpecBase == InitBase /\ [][NextBase]_vars

InitFile ==
    /\ InitQuery
    /\ InitRestIdle
    /\ input \in [Instances -> FileInputs]
    /\ InitBaseIdle
    /\ InitParserIdle

NextFile ==
    \/ \E i \in Instances, opts \in SortArgs, w \in BOOLEAN : Prepare(i, opts, w)
    \/ \E i \in Instances : RunFile(i)
    \/ \E i \in Instances : Finish(i)

SpecFile == InitFile /\ [][NextFile]_vars

\* one line through NewBase, Check and NewLogMessage
InitParser ==
    /\ InitQuery
    /\ InitRestIdle
    /\ input = [i \in Instances |-> <<>>]
    /\ rawLine \in ParserLines
    /\ base = NoBase
    /\ baseErr = "pending"
    /\ checked = NotChecked
    /\ parser = NewParsers
    /\ decode = NoDecode
    /\ entries = 1

NextParser ==
    \/ NewBaseCall
    \/ \E v \in Versions : CheckCall(v)
    \/ \E v \in Versions : NewLogMessage(v)
    \/ CounterStep
    \/ ExceptionStep
    \/ DecodeTail

SpecParser == InitParser /\ [][NextParser]_vars

\* the lines of a file through the same parser instances
InitReuse ==
    /\ InitQuery
    /\ InitRestIdle
    /\ input = [i \in Instances |-> <<>>]
    /\ rawLine \in ReuseLines
    /\ base = NoBase
    /\ baseErr = "pending"
    /\ checked = NotChecked
    /\ parser = NewParsers
    /\ decode = NoDecode
    /\ entries = 1

NextReuse ==
    \/ NextParser
    \/ NextLine(ReuseLines)

SpecReuse == InitReuse /\ [][NextReuse]_vars

\* several files at once: each file has its instance index, its Prepare, its
\* Run and its Finish, and the calls of different files interleave
Files == 0..MaxFile

FilesInputs ==
    { <<>>,
      << Line("crud", "Command", NsA, OpFind, 10, << <<KeyA, Number(1)>> >>) >>,
      << Line("crud", "CommandLegacy", NsB, OpUpdate, 20, << <<KeyB, Number(1)>>, <<KeyA, Number(1)>> >>),
         Line("bad", "None", <<>>, <<>>, 0, <<>>) >> }

InitFiles ==
    /\ InitRestIdle
    /\ Log = <<>>
    /\ pc = [i \in Files |-> "new"]
    /\ seen = [i \in Files |-> <<>>]
    /\ summaryTable = <<>>
    /\ wrap = FALSE
    /\ input \in [Files -> FilesInputs]
    /\ InitBaseIdle
    /\ InitParserIdle

NextFiles ==
    \/ \E i \in Files, opts \in SortArgs, w \in BOOLEAN : Prepare(i, opts, w)
    \/ \E i \in Files : RunFile(i)
    \/ \E i \in Files : Finish(i)

SpecFiles == InitFiles /\ [][NextFiles]_vars

\* filters of every construct the canonicalizer knows, with the leaves and
\* the lists varied; a file of SpecShape is two find lines on one namespace
Leaves == {Number(5), Str(<<"y">>)}
Lists == { <<"A", q>> : q \in SeqsUpTo({Number(5), Number(6)}, MaxList) } \cup {Str(<<"y">>)}

Obj(members) == <<"O", members>>
Arr(elements) == <<"A", elements>>

ShapeFilters ==
    { << <<<<"a">>, l>> >> : l \in Leaves \cup {Arr(<<Number(5), Number(6)>>)} }
    \cup { << <<<<"_", "i", "d">>, l>> >> : l \in {ObjectId, Number(5)} }
    \cup { << <<<<"a">>, l>>, <<<<"b">>, Number(5)>> >> : l \in Leaves }
    \cup { << <<<<"a">>, Obj(<< <<op, list>> >>)>> >> : op \in ListOperators, list \in Lists }
    \cup { << <<<<"a">>, Obj(<< <<<<"$", "g", "t">>, l>> >>)>> >> : l \in Leaves }
    \cup { << <<<<"$", "o", "r">>, Arr(<< Obj(<< <<<<"a">>, l>> >>), Obj(<< <<<<"b">>, m>> >>) >>)>> >> :
             l \in Leaves, m \in Leaves }
    \cup { << <<<<"$", "o", "r">>, Arr(<< Obj(<< <<<<"a">>, l>> >>) >>)>> >> : l \in Leaves }
    \cup { << <<<<"$", "a", "n", "d">>, Arr(<< Obj(<< <<<<"$", "o", "r">>, Arr(<< Obj(<< <<<<"a">>, l>> >>) >>)>> >>),
                                 Arr(<< Obj(<< <<<<"$", "o", "r">>, Arr(<< Obj(<< <<<<"c">>, Number(5)>> >>) >>)>> >>) >>) >>)>> >> :
             l \in Leaves }
    \cup { << <<<<"a">>, Obj(<< <<<<"$", "e", "l", "e", "m", "M", "a", "t", "c", "h">>,
                               Obj(<< <<<<"b">>, l>>, <<<<"c">>, Obj(<< <<<<"$", "g", "t", "e">>, m>> >>)>> >>)>> >>)>> >> :
             l \in Leaves, m \in Leaves }
    \cup { << <<<<"a">>, Obj(<< <<<<"$", "g", "e", "o", "W", "i", "t", "h", "i", "n">>,
                               Obj(<< <<<<"$", "c", "e", "n", "t", "e", "r">>, Arr(<< Arr(<<l, l>>), Number(5) >>)>> >>)>> >>)>> >> :
             l \in {Number(5), Number(6)} }
    \cup { << <<<<"a">>, Obj(<< <<<<"$", "g", "e", "o", "W", "i", "t", "h", "i", "n">>,
                               Obj(<< <<<<"$", "g", "e", "o", "m", "e", "t", "r", "y">>,
                                      Obj(<< <<<<"a">>, l>>, <<<<"b">>, Arr(<<Number(5), Number(5)>>)>> >>)>> >>)>> >>)>> >> :
             l \in Leaves }

ShapeLines == { Line("crud", "Command", NsA, OpFind, 10, f) : f \in ShapeFilters }

InitShape ==
    /\ InitQuery
    /\ InitRestIdle
    /\ input \in [Instances -> { <<a, b>> : a \in ShapeLines, b \in ShapeLines }]
    /\ InitBaseIdle
    /\ InitParserIdle

SpecShape == InitShape /\ [][NextFile]_vars

(***************************************************************************)
(* ParseJson on one document, in either mode.  The documents are objects   *)
(* of up to MaxMembers members; a member joins one way of writing a key    *)
(* with one way of writing a value, so that the four constructs beyond     *)
(* JSON (bareword key, single-quoted string, bare regex, constructor) all  *)
(* occur, alone and together, beside documents that are plain JSON.        *)
(***************************************************************************)
\* the members of the largest document
MaxMembers == 2

\* the digit that numbers the n-th member
Digit(n) == <<"1", "2", "3", "4">>[n]

\* the ways of writing the key k followed by the digit n
KeyForms(n) ==
    { <<"\"", "k", n, "\"">>, <<"k", n>>, <<"$", "k", n>>, <<"'", "k", n, "'">> }

ValueForms ==
    { <<"\"", "v", "a", "l", "u", "e", "\"">>, <<"'", "v", "a", "l", "u", "e", "'">>, <<"1">>, <<"/", "r", "e", "g", "e", "x", "/", "i">>, <<"/", "r", "e", "g", "e", "x", "/">>,
      <<"o", "b", "j", "e", "c", "t", "i", "d", "(", "0", "0", "0", "0", "0", "0", "0", "0", "0", "0", "0", "0", "0", "0", "0", "0", "0", "0", "0", "0", "0", "0", "0", "0", "0", "0", ")">>, <<"[", "\"", "v", "a", "l", "u", "e", "\"", "]">>,
      <<"{", "k", ":", "'", "v", "'", "}">>, <<"{", "\"", "k", "\"", ":", " ", "/", "r", "e", "g", "e", "x", "/", " ", "}">> }

MemberForms(n) == { k \o <<":">> \o v : k \in KeyForms(n), v \in ValueForms }

RECURSIVE MemberLists(_)
MemberLists(n) ==
    IF n = 0 THEN { <<>> }
    ELSE IF n = 1 THEN MemberForms(Digit(1))
    ELSE { ms \o <<",">> \o m : ms \in MemberLists(n - 1), m \in MemberForms(Digit(n)) }

JsonDocs == { <<"{">> \o ms \o <<"}">> : ms \in UNION { MemberLists(n) : n \in 0..MaxMembers } }

InitJson ==
    /\ InitQuery
    /\ input = [i \in Instances |-> <<>>]
    /\ InitBaseIdle
    /\ InitParserIdle
    /\ file = NoLog
    /\ call = NoCall
    /\ \E doc \in JsonDocs, strict \in BOOLEAN :
          json = [doc |-> doc, strict |-> strict, state |-> "pending", result |-> <<"Z">>]

\* value, err := ParseJson(source, strict)
ParseJsonCall ==
    /\ json.state = "pending"
    /\ \E res \in {ParseJson(json.doc, json.strict)} :
          json' = [json EXCEPT !.state = IF res.ok THEN "ok" ELSE "error",
                               !.result = IF res.ok THEN res.val ELSE <<"Z">>]
    /\ UNCHANGED <<queryVars, baseVars, parserVars, logVars>>

NextJson == ParseJsonCall

SpecJson == InitJson /\ [][NextJson]_vars

(***************************************************************************)
(* The line source Log: one goroutine calls Next, the others call Close.   *)
(* file is the Log the pointer receivers work on; get has a value          *)
(* receiver, so each call of it works on the copy of the Log made at its   *)
(* entry, lock included; the Scanner and the Closer are shared by pointer. *)
(* The copy is taken while Close may be writing: whatever the order of the *)
(* reads, the lock and the flag it gets are those of one of the states     *)
(* Close goes through, and the steps of Close make each of them visible.   *)
(***************************************************************************)
\* the lines of the longest file
MaxText == 2

\* the goroutines that call Close
Closers == {1, 2}

LogLineSet ==
    { IsoDate \o <<" ", "I", " ", "C", "O", "N", "T", "R", "O", "L", " ", "[", "c", "]", " ", "p", "i", "d", "=", "1">>,
      CDate \o <<" ", "[", "c", "]", " ", "x">>,
      <<"x">> }

LogTexts == SeqsUpTo(LogLineSet, MaxText)

\* NewLog: nothing scanned, not closed, line 0, the lock free
NewLog(text) ==
    [open |-> TRUE, text |-> text, scanned |-> 0, closes |-> 0,
     next |-> NoBase, error |-> "nil",
     closed |-> FALSE, eof |-> FALSE, line |-> 0, mutex |-> FALSE]

\* the fields of the Log that get reads from its copy
CopyOf(log) == [closed |-> log.closed, eof |-> log.eof, line |-> log.line, mutex |-> log.mutex]

NoCopy == [closed |-> FALSE, eof |-> FALSE, line |-> 0, mutex |-> FALSE]

InitLog ==
    /\ InitQuery
    /\ input = [i \in Instances |-> <<>>]
    /\ InitBaseIdle
    /\ InitParserIdle
    /\ json = NoJson
    /\ \E text \in LogTexts : file = NewLog(text)
    /\ call = [open |-> TRUE,
               next |-> [pc |-> "idle", copy |-> NoCopy, returned |-> "none"],
               close |-> [c \in Closers |-> "idle"]]

\* what Next leaves in the Log and returns, given what get returned
NextReturn(log, got) ==
    [log |-> [log EXCEPT !.next = got.base, !.error = got.err],
     returned |-> IF got.err = "EOF" THEN "false" ELSE "true"]

GetEOF == [base |-> NoBase, err |-> "EOF"]

\* Next calls get, which copies the Log; with eof set get returns at once
NextEnter ==
    /\ call.next.pc = "idle"
    /\ \E copy \in {CopyOf(file)} :
          IF copy.eof
          THEN \E res \in {NextReturn(file, GetEOF)} :
                  /\ file' = res.log
                  /\ call' = [call EXCEPT !.next = [pc |-> "idle", copy |-> copy, returned |-> res.returned]]
          ELSE /\ call' = [call EXCEPT !.next = [pc |-> "isClosed", copy |-> copy, returned |-> "none"]]
               /\ UNCHANGED file
    /\ UNCHANGED <<queryVars, baseVars, parserVars, jsonVars>>

\* isClosed on the copy: RLock waits while the write lock of the copy is
\* held, then the flag of the copy is read and the lock released
NextIsClosed ==
    /\ call.next.pc = "isClosed"
    /\ ~call.next.copy.mutex
    /\ IF call.next.copy.closed
       THEN \E res \in {NextReturn(file, GetEOF)} :
               /\ file' = res.log
               /\ call' = [call EXCEPT !.next.pc = "idle", !.next.returned = res.returned]
       ELSE /\ call' = [call EXCEPT !.next.pc = "Scan"]
            /\ UNCHANGED file
    /\ UNCHANGED <<queryVars, baseVars, parserVars, jsonVars>>

\* the line counter as get leaves it in the Log it was called on, and the
\* number it hands to NewBase
getLineCopy(log, copy) == [line |-> log.line, num |-> copy.line + 1]

\* Scanner.Scan and the rest of get and Next: a line scanned goes through
\* NewBase with the line counter of the copy; once the Closer has closed
\* the file a Scan may still deliver what was buffered, or fail
NextScan ==
    /\ call.next.pc = "Scan"
    /\ \E scans \in (IF file.closes > 0 THEN BOOLEAN ELSE {TRUE}) :
          IF scans /\ file.scanned < Len(file.text)
          THEN \E n \in {getLineCopy(file, call.next.copy)} :
               \E got \in {NewBase(file.text[file.scanned + 1], n.num)} :
               \E res \in {NextReturn([file EXCEPT !.scanned = @ + 1, !.line = n.line], got)} :
                  /\ file' = res.log
                  /\ call' = [call EXCEPT !.next.pc = "idle", !.next.returned = res.returned]
          ELSE \E res \in {NextReturn(file, GetEOF)} :
                  /\ file' = res.log
                  /\ call' = [call EXCEPT !.next.pc = "idle", !.next.returned = res.returned]
    /\ UNCHANGED <<queryVars, baseVars, parserVars, jsonVars>>

\* f.mutex.Lock() of the Log itself
CloseLock(c) ==
    /\ call.close[c] = "idle"
    /\ ~file.mutex
    /\ file' = [file EXCEPT !.mutex = TRUE]
    /\ call' = [call EXCEPT !.close[c] = "locked"]
    /\ UNCHANGED <<queryVars, baseVars, parserVars, jsonVars>>

\* if !f.closed { f.closed = true; return f.Closer.Close() }
CloseBody(c) ==
    /\ call.close[c] = "locked"
    /\ file' = IF file.closed THEN file
               ELSE [file EXCEPT !.closed = TRUE, !.closes = @ + 1]
    /\ call' = [call EXCEPT !.close[c] = "unlock"]
    /\ UNCHANGED <<queryVars, baseVars, parserVars, jsonVars>>

\* the deferred f.mutex.Unlock()
CloseUnlock(c) ==
    /\ call.close[c] = "unlock"
    /\ file' = [file EXCEPT !.mutex = FALSE]
    /\ call' = [call EXCEPT !.close[c] = "idle"]
    /\ UNCHANGED <<queryVars, baseVars, parserVars, jsonVars>>

NextLog ==
    \/ NextEnter
    \/ NextIsClosed
    \/ NextScan
    \/ \E c \in Closers : CloseLock(c)
    \/ \E c \in Closers : CloseBody(c)
    \/ \E c \in Closers : CloseUnlock(c)

SpecLog == InitLog /\ [][NextLog]_vars

(***************************************************************************)
(* What the lines a file delivered say about a bucket                      *)
(***************************************************************************)
Range(q) == { q[k] : k \in DOMAIN q }

\* a line Run keeps: a CRUD command or operation with one of the seven names
KeptLine(line) ==
    /\ line.kind = "crud"
    /\ line.variant \in {"Command", "CommandLegacy", "Operation", "OperationLegacy"}
    /\ StringToLower(line.op) \in KeptOperations

KeyOfLine(line) ==
    line.ns \o <<":">> \o StringToLower(line.op) \o <<":">> \o StringCompact(NewPattern(line.filter))

\* the positions of the kept lines of a file that carry a key
LinesOfKey(lines, key) ==
    { k \in DOMAIN lines : KeptLine(lines[k]) /\ KeyOfLine(lines[k]) = key }

KeysOf(lines) == { KeyOfLine(lines[k]) : k \in { j \in DOMAIN lines : KeptLine(lines[j]) } }

RECURSIVE SumOver(_, _)
SumOver(lines, idx) ==
    IF idx = {} THEN 0
    ELSE LET k == CHOOSE j \in idx : TRUE IN lines[k].dur + SumOver(lines, idx \ {k})

\* the k-th smallest (k = 1 is the smallest) duration of the lines at idx
KthSmallest(lines, idx, k) ==
    CHOOSE v \in { lines[j].dur : j \in idx } :
        /\ Cardinality({ j \in idx : lines[j].dur < v }) < k
        /\ k <= Cardinality({ j \in idx : lines[j].dur <= v })

RowKey(row) == row.Namespace \o <<":">> \o row.Operation \o <<":">> \o row.Pattern

\* the rows Finish printed for instance i
PrintedRows(i) ==
    LET at == { k \in DOMAIN summaryTable : ~summaryTable[k].sep /\ summaryTable[k].index = i }
    IN  IF at = {} THEN <<>> ELSE summaryTable[CHOOSE k \in at : TRUE].rows

Ran(i) == pc[i] \in {"running", "ran", "finished"}

(***************************************************************************)
(* C1: whatever lines Run has consumed, the buckets are exactly the keys   *)
(* of the kept lines, and each bucket holds the number of kept lines with  *)
(* its key as Count, the sum of their durations as Sum, the smallest as    *)
(* Min and the largest as Max.                                             *)
(***************************************************************************)
C1_BucketTotals ==
    \A i \in Instances : Ran(i) =>
        /\ DOMAIN Log[i].Patterns = KeysOf(seen[i])
        /\ \A key \in DOMAIN Log[i].Patterns :
              LET idx == LinesOfKey(seen[i], key)
                  b == Log[i].Patterns[key].Pattern
              IN  /\ b.Count = Cardinality(idx)
                  /\ b.Sum = SumOver(seen[i], idx)
                  /\ \A j \in idx : b.Min <= seen[i][j].dur /\ seen[i][j].dur <= b.Max
                  /\ \E j \in idx : b.Min = seen[i][j].dur
                  /\ \E j \in idx : b.Max = seen[i][j].dur

\* three lines of 10, 20 and 30 ms in one bucket: count 3, min 10, max 30, sum 60
C1_Witness ==
    /\ pc[0] = "ran"
    /\ Len(seen[0]) = 3
    /\ \E key \in DOMAIN Log[0].Patterns :
          LET b == Log[0].Patterns[key].Pattern
          IN  b.Count = 3 /\ b.Min = 10 /\ b.Max = 30 /\ b.Sum = 60

(***************************************************************************)
(* C2: every printed row of a bucket with n >= 2 samples has, with the     *)
(* samples in ascending order and idx = 0.95 * n, p95 = samples[idx] when  *)
(* idx is whole and (samples[floor(idx)-1] + samples[floor(idx)]) / 2      *)
(* otherwise; the indexes lie inside the vector; 10, 20, 30 give 25.       *)
(***************************************************************************)
C2_Percentile ==
    \A i \in Instances : pc[i] = "finished" =>
        \A r \in DOMAIN PrintedRows(i) :
            LET row == PrintedRows(i)[r]
                idx == LinesOfKey(seen[i], RowKey(row))
                n == Cardinality(idx)
                fl == (19 * n) \div 20
            IN  n >= 2 =>
                  /\ ~row.N95Percentile.nan
                  /\ (19 * n) % 20 = 0 =>
                        /\ 0 <= fl /\ fl < n
                        /\ row.N95Percentile.twice = 2 * KthSmallest(seen[i], idx, fl + 1)
                  /\ (19 * n) % 20 # 0 =>
                        /\ 0 <= fl - 1 /\ fl < n
                        /\ row.N95Percentile.twice =
                              KthSmallest(seen[i], idx, fl) + KthSmallest(seen[i], idx, fl + 1)
                  /\ { seen[i][j].dur : j \in idx } = {10, 20, 30} /\ n = 3 =>
                        row.N95Percentile.twice = 2 * 25

\* a bucket of twenty samples that did not arrive in order: idx = 19 is whole
C2_Witness ==
    /\ pc[0] = "finished"
    /\ Len(seen[0]) = 20
    /\ seen[0][1].dur > seen[0][2].dur
    /\ \E r \in DOMAIN PrintedRows(0) :
          /\ PrintedRows(0)[r].Count = 20
          /\ PrintedRows(0)[r].N95Percentile = Float(2 * PrintedRows(0)[r].Max)

(***************************************************************************)
(* C3: a printed row of a bucket with at most one sample has p95 = NaN.    *)
(***************************************************************************)
C3_SingleSampleNaN ==
    \A i \in Instances : pc[i] = "finished" =>
        \A r \in DOMAIN PrintedRows(i) :
            PrintedRows(i)[r].Count <= 1 => PrintedRows(i)[r].N95Percentile.nan

(***************************************************************************)
(* C4: the sample vector of a bucket never holds more than N95MaxSamples   *)
(* entries.                                                                *)
(***************************************************************************)
C4_SamplesCapped ==
    \A i \in DOMAIN Log : \A key \in DOMAIN Log[i].Patterns :
        Len(Log[i].Patterns[key].p95) <= N95MaxSamples

(***************************************************************************)
(* C5: with the sort option `count` the printed table is in descending     *)
(* count order, rows of equal count in ascending namespace order.          *)
(***************************************************************************)
C5_SortByCount ==
    \A i \in Instances :
        (pc[i] = "finished" /\ Log[i].sort = Append(DefaultSort, sortCount)) =>
            \A a, b \in DOMAIN PrintedRows(i) : a < b =>
                LET ra == PrintedRows(i)[a]
                    rb == PrintedRows(i)[b]
                IN  /\ ra.Count >= rb.Count
                    /\ ra.Count = rb.Count => ~StrLess(rb.Namespace, ra.Namespace)

(***************************************************************************)
(* C6: every printed row with count n > 0 has min <= sum/n <= max, and     *)
(* min <= p95 <= max when n >= 2.                                          *)
(***************************************************************************)
C6_MeanAndPercentileInRange ==
    \A i \in Instances : pc[i] = "finished" =>
        \A r \in DOMAIN PrintedRows(i) :
            LET row == PrintedRows(i)[r]
                n == row.Count
            IN  n > 0 =>
                  /\ row.Min * n <= row.Sum /\ row.Sum <= row.Max * n
                  /\ n >= 2 => /\ ~row.N95Percentile.nan
                               /\ 2 * row.Min <= row.N95Percentile.twice
                               /\ row.N95Percentile.twice <= 2 * row.Max

\* a row of three unequal samples whose percentile lies strictly between min and max
C6_Witness ==
    /\ pc[0] = "finished"
    /\ \E r \in DOMAIN PrintedRows(0) :
          LET row == PrintedRows(0)[r]
          IN  /\ row.Count >= 3
              /\ 2 * row.Min < row.N95Percentile.twice
              /\ row.N95Percentile.twice < 2 * row.Max

(***************************************************************************)
(* C7: the printed buckets do not depend on the order of the lines: the    *)
(* same lines in any other order give the same rows (count, min, max, sum  *)
(* and p95 of every bucket).                                               *)
(***************************************************************************)
Reorderings(q) ==
    { [k \in DOMAIN q |-> q[f[k]]] :
        f \in { g \in [DOMAIN q -> DOMAIN q] : \A a, b \in DOMAIN q : a # b => g[a] # g[b] } }

RowsOf(log) == { valuesOf(log.Patterns[k]).Pattern : k \in DOMAIN log.Patterns }

C7_OrderIndependent ==
    \A i \in Instances : pc[i] = "finished" =>
        \A other \in Reorderings(seen[i]) :
            RowsOf(RunLines(NewQueryInstance(Log[i].sort), other)) = Range(PrintedRows(i))

\* three lines of one bucket that arrived with the largest duration first
C7_Witness ==
    /\ pc[0] = "finished"
    /\ Len(seen[0]) = 3
    /\ seen[0][1].dur = 30 /\ seen[0][2].dur = 10 /\ seen[0][3].dur = 20
    /\ \E r \in DOMAIN PrintedRows(0) : PrintedRows(0)[r].Count = 3

(***************************************************************************)
(* Steps of Run that consume one line                                      *)
(***************************************************************************)
OneLineStep(i) ==
    /\ pc[i] \in {"prepared", "running"}
    /\ Len(seen'[i]) = Len(seen[i]) + 1
    /\ SubSeq(seen'[i], 1, Len(seen[i])) = seen[i]

LineOfStep(i) == seen'[i][Len(seen'[i])]

FourVariants == {"Command", "Operation", "CommandLegacy", "OperationLegacy"}

(***************************************************************************)
(* C8 as claimed: every line whose decoded message is none of Command,     *)
(* Operation, CommandLegacy, OperationLegacy (a Control message, say)      *)
(* raises ErrorCount by one and leaves the Patterns map unchanged.         *)
(***************************************************************************)
C8_Claimed ==
    [][\A i \in Instances : OneLineStep(i) =>
          LET line == LineOfStep(i)
          IN  (line.kind \in {"msg", "crud"} /\ line.variant \notin FourVariants) =>
                 /\ Log'[i].ErrorCount = Log[i].ErrorCount + 1
                 /\ Log'[i].Patterns = Log[i].Patterns]_vars

(***************************************************************************)
(* C8 amended: a CRUD line that wraps none of Command, Operation,          *)
(* CommandLegacy, OperationLegacy raises ErrorCount by one and leaves the  *)
(* Patterns map unchanged; a line whose message is no CRUD (a Control      *)
(* message, say) changes neither ErrorCount nor the Patterns map.          *)
(***************************************************************************)
C8_UnexpectedVariant ==
    [][\A i \in Instances : OneLineStep(i) =>
          LET line == LineOfStep(i)
          IN  /\ (line.kind = "crud" /\ line.variant \notin FourVariants) =>
                    /\ Log'[i].ErrorCount = Log[i].ErrorCount + 1
                    /\ Log'[i].Patterns = Log[i].Patterns
              /\ line.kind = "msg" =>
                    /\ Log'[i].ErrorCount = Log[i].ErrorCount
                    /\ Log'[i].Patterns = Log[i].Patterns]_vars

\* a Control line and a CRUD line of an unexpected variant were consumed: one error
C8_Witness ==
    /\ pc[0] = "running"
    /\ Len(seen[0]) = 2
    /\ seen[0][1].kind = "msg" /\ seen[0][1].variant = "Control"
    /\ seen[0][2].kind = "crud" /\ seen[0][2].variant = "Other"
    /\ Log[0].ErrorCount = 1 /\ Log[0].LineCount = 2
    /\ DOMAIN Log[0].Patterns = {}

(***************************************************************************)
(* C9: a CRUD line changes the Patterns map only if its lower-cased        *)
(* operation is one of find, count, update, getmore, remove,               *)
(* findandmodify, geonear, and then only the bucket keyed by the           *)
(* lower-cased name; any other operation adds no bucket and changes none.  *)
(***************************************************************************)
C9_OnlyKeptOperations ==
    [][\A i \in Instances : OneLineStep(i) =>
          LET line == LineOfStep(i)
              op == StringToLower(line.op)
              key == line.ns \o <<":">> \o op \o <<":">> \o StringCompact(NewPattern(line.filter))
              before == Log[i].Patterns
              after == Log'[i].Patterns
          IN  line.kind = "crud" =>
                /\ op \notin KeptOperations => after = before
                /\ after # before =>
                      /\ op \in KeptOperations
                      /\ DOMAIN after = DOMAIN before \cup {key}
                      /\ after[key].Pattern.Operation = op
                      /\ \A k \in DOMAIN before \ {key} : after[k] = before[k]]_vars

\* `Find` was aggregated under find, `insert` was not aggregated
C9_Witness ==
    /\ pc[0] = "running"
    /\ Len(seen[0]) = 2
    /\ seen[0][1].op = OpFindMixed /\ seen[0][1].kind = "crud"
    /\ seen[0][2].op = OpInsert /\ seen[0][2].kind = "crud"
    /\ DOMAIN Log[0].Patterns = { NsA \o <<":">> \o OpFind \o <<":", "{", "a", ":", "V", "}">> }
    /\ \A k \in DOMAIN Log[0].Patterns : Log[0].Patterns[k].Pattern.Count = 1

(***************************************************************************)
(* What a raw line says about its date and context                         *)
(***************************************************************************)
\* the words of a line: its maximal runs of runes other than blanks
RECURSIVE SplitWords(_)
SplitWords(line) ==
    IF line = <<>> THEN <<>>
    ELSE IF line[1] = " " THEN SplitWords(Tail(line))
    ELSE LET blanks == { k \in 1..Len(line) : line[k] = " " }
             stop == IF blanks = {} THEN Len(line) + 1
                     ELSE CHOOSE k \in blanks : \A j \in blanks : k <= j
         IN  <<SubSeq(line, 1, stop - 1)>> \o SplitWords(SubSeq(line, stop, Len(line)))

\* the first word is an ISO-8601 timestamp, or the first four are a weekday, a
\* month, a day of the month and a time
DateRecognized(line) ==
    LET ws == SplitWords(line)
    IN  /\ ws # <<>>
        /\ \/ IsIso8601String(ws[1])
           \/ /\ Len(ws) >= 4
              /\ IsDay(ws[1]) /\ IsMonth(ws[2]) /\ IsNumeric(ws[3]) /\ IsTime(ws[4])

Bracketed(line) == \E k \in 1..Len(line) : line[k] = "["

\* a weekday at the start of the line is followed by a month, a day and a time
\* (the lines on which the checks of the ctime date do not decide the outcome)
CDateWellFormed(line) ==
    LET ws == SplitWords(line)
    IN  (ws # <<>> /\ IsDay(ws[1])) =>
            (Len(ws) >= 4 /\ IsMonth(ws[2]) /\ IsNumeric(ws[3]) /\ IsTime(ws[4]))

C11_CheckRefuses ==
    (checked.v \in Versions /\ (base.CString \/ base.RawComponent = <<>>)) => ~checked.ok

(***************************************************************************)
(* C12 as claimed: a turn of the counter loop of the 3.6 and 4.0 decoders  *)
(* leaves Expect-Counter for Done exactly on end of line or on a word that *)
(* starts with `locks:` (the bare word `locks:` included); on a `locks:`   *)
(* word no counter is recorded and the cursor is rewound so that this word *)
(* is the next one read; on `exception:` the exception text is consumed    *)
(* and the loop is back in Expect-Counter (or the decode fails); every     *)
(* other word records one counter or fails the decode.                     *)
(***************************************************************************)
C12_CounterLoop ==
    [][ /\ decode.state = "Expect-Counter" =>
             LET param == SlurpWord(decode.r)
                 locks == /\ param.ok /\ Len(param.word) >= 6
                          /\ SubSeq(param.word, 1, 6) = <<"l", "o", "c", "k", "s", ":">>
                 exception == param.ok /\ param.word = <<"e", "x", "c", "e", "p", "t", "i", "o", "n", ":">>
             IN  /\ decode'.state = "Done" <=> (~param.ok \/ locks)
                 /\ locks => /\ decode'.msg.Counters = decode.msg.Counters
                             /\ SlurpWord(decode'.r).word = param.word
                 /\ exception => /\ decode'.state = "Expect-Exception"
                                 /\ decode'.msg.Counters = decode.msg.Counters
                 /\ (param.ok /\ ~locks /\ ~exception) =>
                        \/ decode'.state = "failed"
                        \/ /\ decode'.state = "Expect-Counter"
                           /\ \E key \in DOMAIN decode'.msg.Counters :
                                \A k \in DOMAIN decode'.msg.Counters \ {key} :
                                    /\ k \in DOMAIN decode.msg.Counters
                                    /\ decode'.msg.Counters[k] = decode.msg.Counters[k]
        /\ decode.state = "Expect-Exception" =>
             decode'.state \in {"Expect-Counter", "failed"} ]_vars

\* the values of the `protocol:` words of a line
ProtocolValues(line) ==
    LET ws == SplitWords(line)
    IN  { SubSeq(ws[k], 10, Len(ws[k])) :
            k \in { j \in 1..Len(ws) : /\ Len(ws[j]) >= 9
                                       /\ SubSeq(ws[j], 1, 9) = <<"p", "r", "o", "t", "o", "c", "o", "l", ":">> } }

(***************************************************************************)
(* C13 as claimed: every message the 3.6 or the 4.0 parser decodes from a  *)
(* COMMAND or a WRITE line carries a protocol tag in {op_msg, op_query,    *)
(* op_command}; a body with another protocol value, or with no protocol    *)
(* token, is failed with VersionUnmatched and yields no message.           *)
(***************************************************************************)
C13_Claimed ==
    [][ (decode.state = "Done" /\ decode.kind \in {"command", "operation"}) =>
            /\ decode'.state = "ok" => decode'.msg.Protocol \in ProtocolTags
            /\ ProtocolValues(rawLine) \cap ProtocolTags = {} =>
                    decode'.state = "failed" /\ decode'.err = "VersionUnmatched" ]_vars

(***************************************************************************)
(* C13 amended: every message the 3.6 or the 4.0 parser decodes from a     *)
(* COMMAND line carries a protocol tag in {op_msg, op_query, op_command};  *)
(* a COMMAND body with another protocol value is failed with               *)
(* VersionUnmatched and one with no protocol token is failed too; a        *)
(* message decoded from a WRITE line carries no protocol tag.              *)
(***************************************************************************)
C13_CommandProtocol ==
    [][ /\ (decode.state = "Done" /\ decode.kind = "command") =>
            /\ decode'.state = "ok" => decode'.msg.Protocol \in ProtocolTags
            /\ ProtocolValues(rawLine) = {} => decode'.state = "failed"
            /\ (ProtocolValues(rawLine) # {} /\ ProtocolValues(rawLine) \cap ProtocolTags = {}) =>
                    decode'.state = "failed" /\ decode'.err = "VersionUnmatched"
        /\ (decode.state = "Done" /\ decode.kind = "operation") =>
            (decode'.state = "ok" => decode'.msg.Protocol = <<>>) ]_vars

\* a COMMAND body with protocol:op_getmore was failed by the 4.0 decoder past
\* its counter loop
C13_Witness ==
    /\ decode.v = 40 /\ decode.kind = "command"
    /\ decode.state = "failed" /\ decode.err = "VersionUnmatched"
    /\ ProtocolValues(rawLine) = {<<"o", "p", "_", "g", "e", "t", "m", "o", "r", "e">>}
    /\ decode.msg = NoMessage

(***************************************************************************)
(* C17 as claimed: the version parser instances are stateless: no step of  *)
(* NewLogMessage, whether the decode succeeds or fails, changes a field of *)
(* a parser instance.                                                      *)
(***************************************************************************)
C17_Stateless == [][parser' = parser]_vars

(***************************************************************************)
(* C20 as claimed: a line that starts with a weekday is taken as           *)
(* ctime-dated only if its first four words are a weekday, a month name, a *)
(* numeric day and a time; if one of the four fails its check, the raw     *)
(* date is empty, the cursor is back at the start of the line and NewBase  *)
(* fails with the unrecognized-date error.                                 *)
(***************************************************************************)
C20_CtimeChecked ==
    LET ws == SplitWords(rawLine)
    IN  (baseErr \notin {"none", "pending"} /\ ws # <<>> /\ IsDay(ws[1])) =>
            \/ Len(ws) >= 4 /\ IsMonth(ws[2]) /\ IsNumeric(ws[3]) /\ IsTime(ws[4])
            \/ /\ base.RawDate = <<>>
               /\ base.RuneReader.next = 0
               /\ baseErr = "ErrorParsingDate"

(***************************************************************************)
(* C14 as claimed: the workers of two files share no mutable state: a      *)
(* variable written on behalf of one file instance is neither read nor     *)
(* written on behalf of another.  While an instance is between its Prepare *)
(* and its Finish, the wrap flag its Finish will read does not change, and *)
(* the summary table holds the rows printed for one instance only.         *)
(***************************************************************************)
C14_NoSharedState ==
    [][ /\ \A i \in Files :
              (pc[i] \in {"prepared", "ran"} /\ pc'[i] = pc[i]) => wrap' = wrap
        /\ \A k, l \in 1..Len(summaryTable') :
              (~summaryTable'[k].sep /\ ~summaryTable'[l].sep) =>
                    summaryTable'[k].index = summaryTable'[l].index ]_vars

(***************************************************************************)
(* Filters of one shape: they differ only in their leaf literals and in    *)
(* the lists of $in, $nin and $all                                         *)
(***************************************************************************)
IsLeaf(v) == ~IsObject(v) /\ ~IsArray(v)

RECURSIVE SameShapeValue(_, _)

SameShape(f, g) ==
    /\ Len(f) = Len(g)
    /\ \A k \in 1..Len(f) :
          /\ f[k][1] = g[k][1]
          /\ f[k][1] \notin ListOperators => SameShapeValue(f[k][2], g[k][2])

SameShapeValue(v, w) ==
    \/ IsLeaf(v) /\ IsLeaf(w)
    \/ IsObject(v) /\ IsObject(w) /\ SameShape(v[2], w[2])
    \/ /\ IsArray(v) /\ IsArray(w) /\ Len(v[2]) = Len(w[2])
       /\ \A k \in 1..Len(v[2]) : SameShapeValue(v[2][k], w[2][k])

(***************************************************************************)
(* C15: NewPattern depends only on the shape of the filter: two filters    *)
(* that differ only in their leaf literals, or in the length and content   *)
(* of an $in, $nin or $all list, give the same pattern, with V for every   *)
(* leaf; kept lines of one namespace and operation that carry such filters *)
(* are counted in one bucket.                                              *)
(***************************************************************************)
C15_ShapeOnly ==
    \A i \in Instances : pc[i] \in {"ran", "finished"} =>
        \A k, l \in DOMAIN seen[i] :
            LET a == seen[i][k]
                b == seen[i][l]
            IN  (/\ KeptLine(a) /\ KeptLine(b)
                 /\ a.ns = b.ns /\ StringToLower(a.op) = StringToLower(b.op)
                 /\ SameShape(a.filter, b.filter)) =>
                    /\ NewPattern(a.filter) = NewPattern(b.filter)
                    /\ StringCompact(NewPattern(a.filter)) = StringCompact(NewPattern(b.filter))
                    /\ KeyOfLine(a) \in DOMAIN Log[i].Patterns
                    /\ k # l => Log[i].Patterns[KeyOfLine(a)].Pattern.Count >= 2

\* {a: {$in: [5, 6]}} and {a: {$in: "y"}} went into the one bucket {a:{$in:V}}
C15_Witness ==
    /\ pc[0] = "ran"
    /\ Len(seen[0]) = 2
    /\ seen[0][1].filter = << <<<<"a">>, Obj(<< <<<<"$", "i", "n">>, Arr(<<Number(5), Number(6)>>)>> >>)>> >>
    /\ seen[0][2].filter = << <<<<"a">>, Obj(<< <<<<"$", "i", "n">>, Str(<<"y">>)>> >>)>> >>
    /\ DOMAIN Log[0].Patterns = { NsA \o <<":">> \o OpFind \o <<":">> \o <<"{", "a", ":", "{", "$", "i", "n", ":", "V", "}", "}">> }
    /\ \A key \in DOMAIN Log[0].Patterns : Log[0].Patterns[key].Pattern.Count = 2

(***************************************************************************)
(* C16: the strict mode and the four constructs beyond JSON                *)
(***************************************************************************)
\* the constructs a document of JsonDocs uses, read off its runes: in these
\* documents a quote, a slash or a parenthesis stands nowhere else, and a
\* key is bare when an identifier rune follows the brace or the comma
UsesBarewordKey(doc) ==
    \E i \in 1..(Len(doc) - 1) : doc[i] \in {"{", ","} /\ doc[i + 1] \in IdentRunes
UsesSingleQuoted(doc) == "'" \in Range(doc)
UsesBareRegex(doc) == "/" \in Range(doc)
UsesConstructor(doc) == "(" \in Range(doc)

\* C16 as claimed: a document that uses a bareword key, a single-quoted
\* string, a bare regex or an objectid constructor is an error in strict
\* mode and parses in relaxed mode
C16_Claimed ==
    (/\ json.state \in {"ok", "error"}
     /\ \/ UsesBarewordKey(json.doc)
        \/ UsesSingleQuoted(json.doc)
        \/ UsesBareRegex(json.doc)
        \/ UsesConstructor(json.doc))
    => json.state = (IF json.strict THEN "error" ELSE "ok")

\* C16 amended: a document that uses a bareword key, a single-quoted string
\* or an objectid constructor is an error in strict mode; every document of
\* JsonDocs parses in relaxed mode; and a bare regex is no error in strict
\* mode: a document whose only construct beyond JSON is the bare regex
\* parses in strict mode to the value the relaxed mode gives it
C16_StrictForbids ==
    json.state \in {"ok", "error"} =>
        /\ (json.strict /\ (\/ UsesBarewordKey(json.doc)
                            \/ UsesSingleQuoted(json.doc)
                            \/ UsesConstructor(json.doc))) => json.state = "error"
        /\ ~json.strict => json.state = "ok"
        /\ (/\ json.strict
            /\ ~UsesBarewordKey(json.doc)
            /\ ~UsesSingleQuoted(json.doc)
            /\ ~UsesConstructor(json.doc))
           => /\ json.state = "ok"
              /\ json.result = ParseJson(json.doc, FALSE).val

\* the strict mode has read a document with a bare regex and a second
\* member, and the regex is in the value
C16_Witness ==
    /\ json.strict
    /\ json.state = "ok"
    /\ UsesBareRegex(json.doc)
    /\ Len(json.result[2]) = 2
    /\ \E i \in 1..2 : json.result[2][i][2][1] = "R"

(***************************************************************************)
(* C18: the line numbers of the line source                                *)
(***************************************************************************)
\* C18: the base line that the k-th Next call returning true makes
\* available carries LineNumber k.  Every Scan that delivers a line ends in
\* a Next that returns true, so k is the number of lines scanned; a line
\* NewBase refuses makes no base line available.
C18_Consecutive ==
    (/\ call.open
     /\ call.next.pc = "idle"
     /\ call.next.returned = "true"
     /\ file.error = "nil")
    => file.next.LineNumber = file.scanned

(***************************************************************************)
(* C19: Next and Close on one Log at the same time                         *)
(***************************************************************************)
\* Next waits for a read lock whose write lock is held: the lock is the one
\* of the copy get works on, which no call of Close ever releases
NextWaitsOnCopy == call.next.pc = "isClosed" /\ call.next.copy.mutex

\* C19: no Next call is left waiting for ever on the lock of the Log,
\* whatever Close is doing, and the Closer is called at most once
C19_NextReturns ==
    call.open => (~NextWaitsOnCopy /\ file.closes <= 1)

\* the half of C19 on the Closer alone
CloserCalledOnce == call.open => file.closes <= 1

\* a Next call that has started comes to its return
NextComesBack == (call.open /\ call.next.pc # "idle") ~> (call.next.pc = "idle")

SpecLogFair ==
    /\ SpecLog
    /\ WF_vars(NextEnter \/ NextIsClosed \/ NextScan)
    /\ \A c \in Closers : WF_vars(CloseLock(c) \/ CloseBody(c) \/ CloseUnlock(c))

====
